---- MODULE Spec2Model ----
(***************************************************************************)
(* Lithium: lightweight exceptions.  A model of one thread using the       *)
(* public API (throw / catch / intercept / rethrow) on top of the          *)
(* thread-local exception stack and one of the unwinding backends.         *)
(*                                                                         *)
(* The thread's control stack `cs` holds the open frames of the running    *)
(* program: Lithium intercept frames, host catch_unwind frames, foreign    *)
(* catch frames, locals with a destructor, in-flight handles and running   *)
(* destructor bodies.  A raise switches `mode` to "unwind"; the unwinder   *)
(* then leaves the frames one by one until a frame takes the exception.    *)
(***************************************************************************)
EXTENDS Integers, Sequences, FiniteSets, TLC

\* ------------------------------------------------------------------ bounds

\* Deepest control stack the modelled program builds.
MaxDepth == 3
\* Width of a model address (usize) in bits.
PtrBits == 17
\* Threads that use their exception stack side by side.
NThreads == 2
\* Most elements a thread keeps on its stack when it uses the stack directly.
MaxElems == 2
\* The throws a thread begins in a run of SpecSeh.
MaxThrows == 2
\* --------------------------------------------------------------- constants

\* unbounded.rs: the inline buffer of the exception stack.
CAPACITY == 4096
\* Address of the inline buffer `data` in the thread-local block.
DataAddr == 16384
\* Room between the addresses of two heap blocks.
HeapSlotSize == 8192
\* offset_of!(Exception<E>, header)
HeaderOffset == 0
\* Address of an exception object that was not allocated by Lithium.
ForeignAddr == 81920

AddrSpace == 2 ^ PtrBits
Null == 0

Backends == {"itanium", "seh", "wasm", "emscripten", "panic"}
ByPointer == {"itanium", "wasm", "emscripten", "panic"}

\* Payload types of the modelled program and their values.
Types == {"unit", "i32", "arr3000", "arr5000"}
Values == {1, 2}
Unit == 0
Uninit == -1

size_of(E) ==
  CASE E = "unit" -> 0
    [] E = "i32" -> 4
    [] E = "arr3000" -> 3000
    [] E = "arr5000" -> 5000

ValuesOf(E) == IF E = "unit" THEN {Unit} ELSE Values

\* size_of and align_of of the backend's ExceptionHeader.
HeaderSize(b) ==
  CASE b = "itanium" -> 32
    [] b = "emscripten" -> 24
    [] b = "wasm" -> 0
    [] b = "panic" -> 0
    [] b = "seh" -> 16

HeaderAlign(b) ==
  CASE b = "itanium" -> 16
    [] b = "emscripten" -> 4
    [] b = "wasm" -> 2
    [] b = "panic" -> 1
    [] b = "seh" -> 8

next_multiple_of(n, a) == ((n + a - 1) \div a) * a

\* size_of::<Exception<E>>(): the header followed by the packed cause.
get_alloc_size(b, E) == next_multiple_of(HeaderSize(b) + size_of(E), HeaderAlign(b))

\* ------------------------------------------------- heterogeneous_stack/*

\* An alignment assertion that is compiled out.
assert_aligned_off(al, n) == TRUE

assert_aligned(al, n) == n % al = 0

wrapping_sub(a, b) == (a - b) % AddrSpace

dangling_mut(al) == al

\* A try_push that forgets the occupancy and hands out the start of the buffer.
try_push_base(al, len, n) ==
  IF ~assert_aligned(al, n) THEN [res |-> "panic", ptr |-> Null, len |-> len]
  ELSE IF n = 0 THEN [res |-> "some", ptr |-> dangling_mut(al), len |-> len]
  ELSE IF n > CAPACITY - len THEN [res |-> "none", ptr |-> Null, len |-> len]
  ELSE [res |-> "some", ptr |-> DataAddr, len |-> len + n]

\* A try_push that refuses to fill the buffer to its last byte.
try_push_strict(al, len, n) ==
  IF ~assert_aligned(al, n) THEN [res |-> "panic", ptr |-> Null, len |-> len]
  ELSE IF n = 0 THEN [res |-> "some", ptr |-> dangling_mut(al), len |-> len]
  ELSE IF n >= CAPACITY - len THEN [res |-> "none", ptr |-> Null, len |-> len]
  ELSE [res |-> "some", ptr |-> DataAddr + len, len |-> len + n]

\* A try_push that hands out the free space without recording its use.
try_push_nolen(al, len, n) ==
  IF ~assert_aligned(al, n) THEN [res |-> "panic", ptr |-> Null, len |-> len]
  ELSE IF n = 0 THEN [res |-> "some", ptr |-> dangling_mut(al), len |-> len]
  ELSE IF n > CAPACITY - len THEN [res |-> "none", ptr |-> Null, len |-> len]
  ELSE [res |-> "some", ptr |-> DataAddr + len, len |-> len]

\* array.rs Stack::try_push on a buffer with occupancy len.
try_push(al, len, n) ==
  IF ~assert_aligned(al, n) THEN [res |-> "panic", ptr |-> Null, len |-> len]
  ELSE IF n = 0 THEN [res |-> "some", ptr |-> dangling_mut(al), len |-> len]
  ELSE IF n > CAPACITY - len THEN [res |-> "none", ptr |-> Null, len |-> len]
  ELSE [res |-> "some", ptr |-> DataAddr + len, len |-> len + n]

\* A pop_unchecked that checks its argument but leaves len as it is.
pop_unchecked_keep(al, len, n) ==
  IF ~assert_aligned(al, n) THEN [res |-> "panic", len |-> len]
  ELSE IF n > len THEN [res |-> "ub", len |-> len]
  ELSE [res |-> "ok", len |-> len]

\* array.rs Stack::pop_unchecked.  Popping more than is allocated is undefined.
pop_unchecked(al, len, n) ==
  IF ~assert_aligned(al, n) THEN [res |-> "panic", len |-> len]
  ELSE IF n > len THEN [res |-> "ub", len |-> len]
  ELSE [res |-> "ok", len |-> len - n]

\* A contains_allocated without the case of zero-size elements.
contains_allocated_sized(ptr, n) ==
  /\ CAPACITY >= n
  /\ wrapping_sub(ptr, DataAddr) <= CAPACITY - n

\* A contains_allocated that subtracts the addresses as signed numbers.
contains_allocated_signed(ptr, n) ==
  \/ n = 0
  \/ /\ CAPACITY >= n
     /\ ptr - DataAddr <= CAPACITY - n

\* array.rs Stack::contains_allocated.
contains_allocated(ptr, n) ==
  \/ n = 0
  \/ /\ CAPACITY >= n
     /\ wrapping_sub(ptr, DataAddr) <= CAPACITY - n

\* Addresses the global allocator hands out: one block below the buffer, the
\* others above it.
HeapSlotAddr(k) ==
  IF k = 1 THEN DataAddr - HeapSlotSize
  ELSE DataAddr + CAPACITY + (k - 1) * HeapSlotSize

FreeSlots(s) == {k \in 1..s.cap : HeapSlotAddr(k) \notin s.heap}

\* heap.rs Heap::alloc: the block the global allocator returns, null when the
\* allocator has no block left.  s = [len, heap, cap].
Heap_alloc(al, s, n) ==
  IF ~assert_aligned(al, n) \/ n = 0 THEN [res |-> "panic", ptr |-> Null, heap |-> s.heap]
  ELSE IF FreeSlots(s) = {} THEN [res |-> "ok", ptr |-> Null, heap |-> s.heap]
  ELSE LET k == CHOOSE i \in FreeSlots(s) : \A j \in FreeSlots(s) : i <= j
       IN [res |-> "ok", ptr |-> HeapSlotAddr(k), heap |-> s.heap \cup {HeapSlotAddr(k)}]

\* Heap::dealloc that keeps the block.
Heap_dealloc_leak(heap, ptr) == [res |-> "ok", heap |-> heap]

\* heap.rs Heap::dealloc.  Freeing what is not allocated is undefined.
Heap_dealloc(heap, ptr) ==
  IF ptr \in heap THEN [res |-> "ok", heap |-> heap \ {ptr}]
  ELSE [res |-> "ub", heap |-> heap]

\* Stack::push that allocates every element of nonzero size on the heap.
Stack_push_heap(al, s, n) ==
  IF ~assert_aligned(al, n) THEN [res |-> "panic", ptr |-> Null, s |-> s]
  ELSE IF n = 0 THEN [res |-> "ok", ptr |-> dangling_mut(al), s |-> s]
  ELSE LET h == Heap_alloc(al, s, n)
       IN [res |-> h.res, ptr |-> h.ptr, s |-> [s EXCEPT !.heap = h.heap]]

\* Stack::push that stays on the heap once an element has spilled there.
Stack_push_spilled(al, s, n) ==
  LET t == try_push(al, s.len, n) IN
  IF t.res = "panic" THEN [res |-> "panic", ptr |-> Null, s |-> s]
  ELSE IF t.res = "some" /\ (n = 0 \/ s.heap = {})
  THEN [res |-> "ok", ptr |-> t.ptr, s |-> [s EXCEPT !.len = t.len]]
  ELSE LET h == Heap_alloc(al, s, n)
       IN [res |-> h.res, ptr |-> h.ptr, s |-> [s EXCEPT !.heap = h.heap]]

\* unbounded.rs Stack::push.
Stack_push(al, s, n) ==
  LET t == try_push(al, s.len, n) IN
  IF t.res = "panic" THEN [res |-> "panic", ptr |-> Null, s |-> s]
  ELSE IF t.res = "some" THEN [res |-> "ok", ptr |-> t.ptr, s |-> [s EXCEPT !.len = t.len]]
  ELSE LET h == Heap_alloc(al, s, n)
       IN [res |-> h.res, ptr |-> h.ptr, s |-> [s EXCEPT !.heap = h.heap]]

\* Stack::pop that tells the allocator from the size alone.
Stack_pop_bysize(al, s, ptr, n) ==
  IF n <= CAPACITY
  THEN LET p == pop_unchecked(al, s.len, n)
       IN [res |-> p.res, s |-> [s EXCEPT !.len = p.len]]
  ELSE LET d == Heap_dealloc(s.heap, ptr)
       IN [res |-> d.res, s |-> [s EXCEPT !.heap = d.heap]]

\* unbounded.rs Stack::pop.
Stack_pop(al, s, ptr, n) ==
  IF contains_allocated(ptr, n)
  THEN LET p == pop_unchecked(al, s.len, n)
       IN [res |-> p.res, s |-> [s EXCEPT !.len = p.len]]
  ELSE LET d == Heap_dealloc(s.heap, ptr)
       IN [res |-> d.res, s |-> [s EXCEPT !.heap = d.heap]]

\* Stack::replace_last that only pushes the new element.
Stack_replace_last_push(al, s, old_ptr, old_n, new_n) == Stack_push(al, s, new_n)

\* Stack::replace_last that places the new element at the start of the buffer.
Stack_replace_last_restart(al, s, old_ptr, old_n, new_n) ==
  Stack_push(al, [s EXCEPT !.len = 0], new_n)

\* Stack::replace_last that keeps every heap element on the heap.
Stack_replace_last_stay(al, s, old_ptr, old_n, new_n) ==
  IF ~assert_aligned(al, new_n) THEN [res |-> "panic", ptr |-> Null, s |-> s]
  ELSE IF old_n = new_n THEN [res |-> "ok", ptr |-> old_ptr, s |-> s]
  ELSE
    LET was_on_stack == contains_allocated(old_ptr, old_n)
        p == Stack_pop(al, s, old_ptr, old_n)
    IN
    IF p.res # "ok" THEN [res |-> p.res, ptr |-> Null, s |-> p.s]
    ELSE IF ~was_on_stack /\ new_n > 0
    THEN LET h == Heap_alloc(al, p.s, new_n)
         IN [res |-> h.res, ptr |-> h.ptr, s |-> [p.s EXCEPT !.heap = h.heap]]
    ELSE Stack_push(al, p.s, new_n)

\* unbounded.rs Stack::replace_last.
Stack_replace_last(al, s, old_ptr, old_n, new_n) ==
  IF ~assert_aligned(al, new_n) THEN [res |-> "panic", ptr |-> Null, s |-> s]
  ELSE IF old_n = new_n THEN [res |-> "ok", ptr |-> old_ptr, s |-> s]
  ELSE
    LET was_on_stack == contains_allocated(old_ptr, old_n)
        p == Stack_pop(al, s, old_ptr, old_n)
    IN
    IF p.res # "ok" THEN [res |-> p.res, ptr |-> Null, s |-> p.s]
    ELSE IF was_on_stack /\ new_n < old_n
    THEN LET t == try_push(al, p.s.len, new_n)
         IN IF t.res = "some"
            THEN [res |-> "ok", ptr |-> t.ptr, s |-> [p.s EXCEPT !.len = t.len]]
            ELSE [res |-> "ub", ptr |-> Null, s |-> p.s]
    ELSE IF ~was_on_stack /\ new_n > old_n
    THEN LET h == Heap_alloc(al, p.s, new_n)
         IN [res |-> h.res, ptr |-> h.ptr, s |-> [p.s EXCEPT !.heap = h.heap]]
    ELSE Stack_push(al, p.s, new_n)

\* ------------------------------------------------------------------ state

VARIABLES
  tc,           \* type_checker.rs: one TypeChecker, made for T and asked for U
  seh,          \* seh.rs: where each thread is in a throw through the tables
  call,         \* one call of intrinsic::intercept, step by step
  build,        \* what build.rs reads from its environment and what it emits
  threads,      \* the stacks of threads that use Stack directly, and the allocator
  shape,        \* the modelled program: its deepest control stack, its payload
                \* types, the blocks the global allocator can hand out
  backend,      \* the backend the build selected
  cs,           \* control stack of the thread, innermost frame last
  mode,         \* "run", "unwind", "abort" (process terminated) or "ub"
  exc,          \* the native exception the unwinder carries while mode = "unwind"
  STACK,        \* stacked_exceptions.rs STACK: [len, heap, cap]
  recs,         \* the records written on the exception stack, oldest first
  panic_count,  \* the host's count of panics in flight on this thread
  tables,       \* seh.rs: the lazily written throw tables
  last          \* what the most recent operation returned or did

vars == <<tc, seh, call, build, threads, shape, backend, cs, mode, exc, STACK, recs, panic_count, tables, last>>

LITHIUM_EXCEPTION_CLASS == "RUSTIEX"
TYPE_INFO == "lithium_exception"
THROW_INFO == "THROW_INFO"

\* What the host runtime and foreign code put into their own exception objects.
NoObj == [class |-> "", tinfo |-> "null", canary |-> "null", caught |-> FALSE,
          ty |-> "", val |-> 0]
RustPanicObj(v) == [class |-> "MOZRUST", tinfo |-> "rust_panic", canary |-> "RUST_CANARY",
                    caught |-> FALSE, ty |-> "str", val |-> v]
ForeignObj == [class |-> "GNUCC++", tinfo |-> "cxx", canary |-> "null", caught |-> FALSE,
               ty |-> "cxx", val |-> 0]

\* The exception in flight: what the unwinder carries (raw, obj) and a record of
\* where it came from (the payload given to throw, the frame open at the throw,
\* the locals it has to clean up, the ones it has cleaned up, frames it crossed).
NoExc == [origin |-> "none", raw |-> Null, obj |-> NoObj, E |-> "unit", val |-> Unit,
          via |-> "none", pE |-> "unit", pval |-> Unit, target |-> 0,
          cleanups |-> <<>>, ran |-> <<>>, crossed |-> 0, susp |-> 0]

NoLast == [op |-> "none", E |-> "unit", val |-> Unit, ptr |-> Null, tE |-> "unit",
           tval |-> Unit, via |-> "none", origin |-> "none", frame |-> 0, target |-> 0,
           ran |-> <<>>, cleanups |-> <<>>, crossed |-> 0, susp |-> 0, top |-> TRUE,
           same |-> TRUE, handler |-> FALSE, pE |-> "unit", pval |-> Unit,
           carry |-> FALSE, obj |-> NoObj, pc |-> 0, api |-> "", intact |-> TRUE,
           kept |-> TRUE, t |-> 0, n |-> 0, n0 |-> 0, res |-> "", len0 |-> 0,
           heap0 |-> {}, nptr |-> Null, reads |-> 0, raw |-> Null, log |-> <<>>,
           rc0 |-> 0, how |-> "",
           tp |-> [res |-> "", ptr |-> Null, len |-> 0], elems0 |-> <<>>,
           pu |-> [res |-> "", len |-> 0],
           ha |-> [res |-> "", ptr |-> Null, heap |-> {}]]

\* A frame of the control stack.
Frame(k, E, api, ex, id, saved, snap) ==
  [k |-> k, E |-> E, api |-> api, ex |-> ex, id |-> id, saved |-> saved, snap |-> snap]

Top == cs[Len(cs)]
PopFrame == SubSeq(cs, 1, Len(cs) - 1)

\* Index of the innermost frame of cs whose kind is in S (0 if none), looking
\* only at the first n frames.
TopIdx(S, n) ==
  LET I == {i \in 1..n : cs[i].k \in S}
  IN IF I = {} THEN 0 ELSE CHOOSE i \in I : \A j \in I : j <= i

\* Ids of the locals declared above frame i, innermost first.
RECURSIVE LocalsAbove(_, _)
LocalsAbove(i, n) ==
  IF n <= i THEN <<>>
  ELSE IF cs[n].k = "local" THEN <<cs[n].id>> \o LocalsAbove(i, n - 1)
  ELSE LocalsAbove(i, n - 1)

StackSnap == <<STACK.len, STACK.heap, recs>>

\* ------------------------------------------------- stacked_exceptions.rs

new_header(b) ==
  CASE b = "itanium" -> [class |-> LITHIUM_EXCEPTION_CLASS, cleanup |-> "cleanup",
                         reference_count |-> 0, exception_type |-> "null"]
    [] OTHER -> [class |-> "", cleanup |-> "none", reference_count |-> 0,
                 exception_type |-> "null"]

\* Exception::header and Exception::from_header.
Exception_header(ex) == ex + HeaderOffset
Exception_from_header(h) == h - HeaderOffset

FreshId(rs) ==
  LET used == {rs[i].id : i \in 1..Len(rs)} \cup {cs[i].id : i \in 1..Len(cs)}
  IN CHOOSE i \in 1..(Cardinality(used) + 1) : i \notin used

\* Index of the newest record written at address p (0 if there is none).
RecAt(rs, p) ==
  LET I == {i \in 1..Len(rs) : rs[i].ptr = p}
  IN IF I = {} THEN 0 ELSE CHOOSE i \in I : \A j \in I : j <= i

\* Whether the n bytes at p share a byte with record r.
Overlaps(r, p, n) == n > 0 /\ r.n > 0 /\ p < r.ptr + r.n /\ r.ptr < p + n

\* ex.write(Exception::new(cause)): the bytes at ex now hold the new record;
\* an older record that had bytes there holds no cause any more.
WriteRec(b, rs, ex, E, v) ==
  LET n == get_alloc_size(b, E)
      kept == [i \in 1..Len(rs) |->
                 IF Overlaps(rs[i], ex, n)
                 THEN [rs[i] EXCEPT !.E = "overwritten", !.cause = Uninit]
                 ELSE rs[i]]
  IN Append(kept, [id |-> FreshId(rs), ptr |-> ex, n |-> n,
                   hdr |-> new_header(b), E |-> E, cause |-> v, reads |-> 0])

\* The end of push and replace_last: the storage a the stack returned is
\* written through.  Writing through a null pointer is undefined.
write_at(b, old, rs, E, v, a) ==
  IF a.res # "ok" THEN [res |-> a.res, ex |-> Null, s |-> a.s, rs |-> old]
  ELSE IF a.ptr = Null THEN [res |-> "ub", ex |-> Null, s |-> a.s, rs |-> old]
  ELSE [res |-> "ok", ex |-> a.ptr, s |-> a.s, rs |-> WriteRec(b, rs, a.ptr, E, v)]

\* stacked_exceptions.rs push: allocate a record and write the exception.
push(b, s, rs, E, v) ==
  write_at(b, rs, rs, E, v, Stack_push(HeaderAlign(b), s, get_alloc_size(b, E)))

\* The safety requirement of pop and replace_last: ex is the record on top of
\* the stack, with the type it was written with.
IsTop(b, rs, ex, E) ==
  /\ Len(rs) > 0
  /\ rs[Len(rs)].ptr = ex
  /\ rs[Len(rs)].n = get_alloc_size(b, E)

\* stacked_exceptions.rs pop.
pop(b, s, rs, ex, E) ==
  IF ~IsTop(b, rs, ex, E) THEN [res |-> "ub", s |-> s, rs |-> rs]
  ELSE LET p == Stack_pop(HeaderAlign(b), s, ex, get_alloc_size(b, E))
       IN [res |-> p.res, s |-> p.s, rs |-> SubSeq(rs, 1, Len(rs) - 1)]

\* A replace_last that moves the record but leaves the old cause in it.
replace_last_keep(b, s, rs, ex, E, F, v) ==
  IF ~IsTop(b, rs, ex, E) THEN [res |-> "ub", ex |-> Null, s |-> s, rs |-> rs]
  ELSE write_at(b, rs, SubSeq(rs, 1, Len(rs) - 1), E, rs[Len(rs)].cause,
                Stack_replace_last(HeaderAlign(b), s, ex, get_alloc_size(b, E),
                                   get_alloc_size(b, F)))

\* stacked_exceptions.rs replace_last.
replace_last(b, s, rs, ex, E, F, v) ==
  IF ~IsTop(b, rs, ex, E) THEN [res |-> "ub", ex |-> Null, s |-> s, rs |-> rs]
  ELSE write_at(b, rs, SubSeq(rs, 1, Len(rs) - 1), F, v,
                Stack_replace_last(HeaderAlign(b), s, ex, get_alloc_size(b, E),
                                   get_alloc_size(b, F)))

\* Exception::cause: a bitwise copy of the cause stored at ex, read as an E.
\* Reading a record of another type, or memory that holds no record, yields
\* no value of E.
cause(b, rs, ex, E) ==
  IF get_alloc_size(b, E) = 0 THEN Unit
  ELSE LET i == RecAt(rs, ex)
       IN IF i # 0 /\ rs[i].E = E THEN rs[i].cause ELSE Uninit

\* ManuallyDrop::take in Exception::cause: the cause has been moved out of the
\* record at ex once more.
ManuallyDrop_take(rs, ex) ==
  IF RecAt(rs, ex) = 0 THEN rs ELSE [rs EXCEPT ![RecAt(rs, ex)].reads = @ + 1]

\* ---------------------------------------------------------- intrinsic.rs

\* do_call after func returned r: the catch callback is dropped, data.ok is written.
do_call(r) == [tag |-> "ok", val |-> r, catch_called |-> FALSE]

\* do_catch: the catch callback is taken and called, data.err is written.
do_catch(x) == [tag |-> "err", val |-> x, catch_called |-> TRUE]

\* An intercept that reads the union the wrong way round.
intrinsic_intercept_swapped(code, data) ==
  IF code # 0
  THEN [variant |-> "Ok", val |-> IF data.tag = "ok" THEN data.val ELSE Uninit,
        handler |-> data.catch_called]
  ELSE [variant |-> "Err", val |-> IF data.tag = "err" THEN data.val ELSE Uninit,
        handler |-> data.catch_called]

\* intrinsic::intercept once catch_unwind has returned code: the union is read
\* as `ok` for 0 and as `err` otherwise.
intrinsic_intercept(code, data) ==
  IF code = 0
  THEN [variant |-> "Ok", val |-> IF data.tag = "ok" THEN data.val ELSE Uninit,
        handler |-> data.catch_called]
  ELSE [variant |-> "Err", val |-> IF data.tag = "err" THEN data.val ELSE Uninit,
        handler |-> data.catch_called]

\* intercept has built Data { init: (func, catch) } and is about to hand
\* do_call and do_catch to catch_unwind.
NoCall ==
  [pc |-> "start", func |-> [kind |-> "", val |-> 0], catch |-> "", drop |-> "",
   func_calls |-> 0, catch_calls |-> 0, catch_dropped |-> FALSE,
   dropper |-> "none", ok_writes |-> 0, err_writes |-> 0,
   data |-> [tag |-> "init", val |-> 0, catch_called |-> FALSE],
   ret |-> [variant |-> "", val |-> 0, handler |-> FALSE]]

\* ------------------------------------------------------------- backend/*

\* The native exception a raise hands to the unwinder.
Native(raw, obj) == [raw |-> raw, obj |-> obj]

SetHdr(rs, p, hdr) ==
  IF RecAt(rs, p) = 0 THEN rs ELSE [rs EXCEPT ![RecAt(rs, p)].hdr = hdr]

HdrAt(rs, p) ==
  IF RecAt(rs, p) = 0 THEN new_header("none") ELSE rs[RecAt(rs, p)].hdr

\* itanium.rs throw: raise(ex).
itanium_throw(h, rs) == [n |-> Native(h, NoObj), rs |-> rs, pc |-> 0]

\* A wasm throw that raises the header pointer as it is.
wasm_throw_plain(h, rs) == [n |-> Native(h, NoObj), rs |-> rs, pc |-> 0]

\* wasm.rs throw: the header pointer with the low bit set.
wasm_throw(h, rs) == [n |-> Native((h + 1) % AddrSpace, NoObj), rs |-> rs, pc |-> 0]

\* emscripten.rs throw: __cxa_throw(end_of_header, &TYPE_INFO, cleanup) fills the
\* prefix in front of the thrown object.
emscripten_throw(h, rs) ==
  [n |-> Native(h + HeaderSize("emscripten"), NoObj),
   rs |-> SetHdr(rs, h, [HdrAt(rs, h) EXCEPT !.exception_type = TYPE_INFO,
                                              !.cleanup = "cleanup",
                                              !.reference_count = 0]),
   pc |-> 0]

\* A panic throw whose payload is a box of another type.
panic_throw_unmarked(h, rs) ==
  [n |-> Native(h, [NoObj EXCEPT !.ty = "usize"]), rs |-> rs, pc |-> 1]

\* panic.rs throw: resume_unwind(Box::<LithiumMarker>::from_raw(ex)).
panic_throw(h, rs) ==
  [n |-> Native(h, [NoObj EXCEPT !.ty = "LithiumMarker"]), rs |-> rs, pc |-> 1]

\* ThrowByPointer::throw of the active backend.
Backend_throw(b, h, rs) ==
  CASE b = "itanium" -> itanium_throw(h, rs)
    [] b = "wasm" -> wasm_throw(h, rs)
    [] b = "emscripten" -> emscripten_throw(h, rs)
    [] b = "panic" -> panic_throw(h, rs)

Verdict(out, ptr, cs_, n, rs, pc) ==
  [out |-> out, ptr |-> ptr, cause |-> cs_, n |-> n, rs |-> rs, pc |-> pc,
   log |-> <<>>]

\* The class word of the object at p: a record of ours, or the object the
\* unwinder carries.
ClassAt(rs, n, p) ==
  IF RecAt(rs, p) # 0 /\ rs[RecAt(rs, p)].n > 0 THEN rs[RecAt(rs, p)].hdr.class
  ELSE n.obj.class

\* An itanium intercept that compares the class word the wrong way round.
itanium_intercept_foreign(n, rs) ==
  LET ex == intrinsic_intercept(1, do_catch(n.raw)).val
      class == ClassAt(rs, n, ex)
  IN IF class = LITHIUM_EXCEPTION_CLASS
     THEN Verdict("reraise", Null, Unit, Native(ex, n.obj), rs, 0)
     ELSE Verdict("err", ex, Unit, n, rs, 0)

\* An itanium intercept that takes every exception for Lithium's.
itanium_intercept_all(n, rs) ==
  Verdict("err", intrinsic_intercept(1, do_catch(n.raw)).val, Unit, n, rs, 0)

\* itanium.rs intercept, on the unwinding path.
itanium_intercept(n, rs) ==
  LET ex == intrinsic_intercept(1, do_catch(n.raw)).val
      class == ClassAt(rs, n, ex)
  IN IF class # LITHIUM_EXCEPTION_CLASS
     THEN Verdict("reraise", Null, Unit, Native(ex, n.obj), rs, 0)
     ELSE Verdict("err", ex, Unit, n, rs, 0)

\* A wasm intercept that does not strip the tag bit.
wasm_intercept_tagged(n, rs) ==
  LET ex == intrinsic_intercept(1, do_catch(n.raw)).val
  IN IF ex % 2 = 0
     THEN Verdict("reraise", Null, Unit, Native(ex, n.obj), rs, 0)
     ELSE Verdict("err", ex, Unit, n, rs, 0)

\* wasm.rs intercept, on the unwinding path.
wasm_intercept(n, rs) ==
  LET ex == intrinsic_intercept(1, do_catch(n.raw)).val
  IN IF ex % 2 = 0
     THEN Verdict("reraise", Null, Unit, Native(ex, n.obj), rs, 0)
     ELSE Verdict("err", wrapping_sub(ex, 1), Unit, n, rs, 0)

\* The type info in front of the thrown object at p.
TypeInfoAt(rs, n, h) ==
  IF RecAt(rs, h) # 0 /\ rs[RecAt(rs, h)].n > 0 THEN rs[RecAt(rs, h)].hdr.exception_type
  ELSE n.obj.tinfo

\* An emscripten intercept that does not look at the type info.
emscripten_intercept_untyped(n, rs) ==
  LET ptr == intrinsic_intercept(1, do_catch(n.raw)).val
      ex == ptr - HeaderSize("emscripten")
      begun == SetHdr(rs, ex, [HdrAt(rs, ex) EXCEPT !.reference_count = @ + 1])
      kept == SetHdr(begun, ex, [HdrAt(begun, ex) EXCEPT !.reference_count = 2])
      ended == SetHdr(kept, ex, [HdrAt(kept, ex) EXCEPT !.reference_count = @ - 1])
  IN Verdict("err", ex, Unit, n, ended, 0)

\* An emscripten intercept that ends the catch before it has raised the
\* reference count.
emscripten_intercept_late(n, rs) ==
  LET ptr == intrinsic_intercept(1, do_catch(n.raw)).val
      ex == ptr - HeaderSize("emscripten")
      begun == SetHdr(rs, ex, [HdrAt(rs, ex) EXCEPT !.reference_count = @ + 1])
  IN IF TypeInfoAt(begun, n, ex) # TYPE_INFO
     THEN [Verdict("reraise", Null, Unit, Native(ptr, n.obj), rs, 0)
             EXCEPT !.log = <<"__cxa_begin_catch", "__cxa_rethrow">>]
     ELSE LET ended == SetHdr(begun, ex,
                              [HdrAt(begun, ex) EXCEPT !.reference_count = @ - 1])
              kept == SetHdr(ended, ex, [HdrAt(ended, ex) EXCEPT !.reference_count = 2])
          IN IF HdrAt(ended, ex).reference_count = 0
             THEN [Verdict("abort", ex, Unit, n, ended, 0)
                     EXCEPT !.log = <<"__cxa_begin_catch", "__cxa_end_catch">>]
             ELSE [Verdict("err", ex, Unit, n, kept, 0)
                     EXCEPT !.log = <<"__cxa_begin_catch", "__cxa_end_catch",
                                      "reference_count = 2">>]

\* emscripten.rs intercept, on the unwinding path: __cxa_begin_catch raises the
\* reference count, __cxa_end_catch lowers it and destroys the object at zero.
\* log lists what intercept did to the runtime and to the header, in order.
emscripten_intercept(n, rs) ==
  LET ptr == intrinsic_intercept(1, do_catch(n.raw)).val
      ex == ptr - HeaderSize("emscripten")
      begun == SetHdr(rs, ex, [HdrAt(rs, ex) EXCEPT !.reference_count = @ + 1])
  IN IF TypeInfoAt(begun, n, ex) # TYPE_INFO
     THEN [Verdict("reraise", Null, Unit, Native(ptr, n.obj), rs, 0)
             EXCEPT !.log = <<"__cxa_begin_catch", "__cxa_rethrow">>]
     ELSE LET kept == SetHdr(begun, ex, [HdrAt(begun, ex) EXCEPT !.reference_count = 2])
              ended == SetHdr(kept, ex,
                              [HdrAt(kept, ex) EXCEPT !.reference_count = @ - 1])
          IN IF HdrAt(ended, ex).reference_count = 0
             THEN [Verdict("abort", ex, Unit, n, ended, 0)
                     EXCEPT !.log = <<"__cxa_begin_catch", "reference_count = 2",
                                      "__cxa_end_catch">>]
             ELSE [Verdict("err", ex, Unit, n, ended, 0)
                     EXCEPT !.log = <<"__cxa_begin_catch", "reference_count = 2",
                                      "__cxa_end_catch">>]

\* A panic intercept that takes every payload for a LithiumMarker.
panic_intercept_any(n, rs) == Verdict("err", n.raw, Unit, n, rs, -1)

\* panic.rs intercept, on the unwinding path: catch_unwind takes the payload
\* (the panic count drops), resume_unwind raises it again.
panic_intercept(n, rs) ==
  IF n.obj.ty = "LithiumMarker"
  THEN Verdict("err", n.raw, Unit, n, rs, -1)
  ELSE Verdict("reraise", Null, Unit, Native(n.raw, n.obj), rs, -1 + 1)

\* ThrowByPointer::intercept of the active backend, on the unwinding path.
Backend_intercept(b, n, rs) ==
  CASE b = "itanium" -> itanium_intercept(n, rs)
    [] b = "wasm" -> wasm_intercept(n, rs)
    [] b = "emscripten" -> emscripten_intercept(n, rs)
    [] b = "panic" -> panic_intercept(n, rs)

\* seh.rs do_throw: the exception object lives in the throwing frame.
do_throw(E, v) ==
  Native(ForeignAddr, [NoObj EXCEPT !.canary = THROW_INFO, !.caught = FALSE,
                                    !.ty = E, !.val = v])

\* A throw_std_panic that uses resume_unwind, which counts the panic again.
throw_std_panic_resume(payload) ==
  [n |-> Native(ForeignAddr, RustPanicObj(payload)), pc |-> 1]

\* seh.rs throw_std_panic: __rust_start_panic with the payload taken out of the
\* caught panic; the panic count is left alone.
throw_std_panic(payload) == [n |-> Native(ForeignAddr, RustPanicObj(payload)), pc |-> 0]

\* lib.rs abort: writes the message to stderr and terminates the process.
abort(message) == "abort"

\* A copy entry that returns to the runtime.
seh_copy_returns(to, from) == "ok"

\* seh.rs copy, the copy function of the catchable type.
seh_copy(to, from) == abort("caught by a non-Lithium catch mechanism")

\* seh.rs cleanup, run by the C++ runtime when the catch handler returned.
seh_cleanup(obj) == IF ~obj.caught THEN "abort" ELSE "ok"

\* A cleanup callback that returns to the runtime that called it.
itanium_cleanup_returns(code, ex) == "ok"

\* itanium.rs cleanup, the exception_cleanup of the header.
itanium_cleanup(code, ex) == abort("caught by a non-Lithium catch mechanism")

\* emscripten.rs cleanup, the destructor given to __cxa_throw.
emscripten_cleanup(ex) == abort("caught by a non-Lithium catch mechanism")

\* A foreign catch block ends: the native runtime destroys exception n through
\* the destructor its thrower installed, if it installed one.
destroy_exception(b, n, rs, tb) ==
  CASE b = "itanium" ->
         IF HdrAt(rs, n.raw).cleanup = "cleanup" THEN itanium_cleanup(1, n.raw) ELSE "ok"
    [] b = "emscripten" ->
         IF HdrAt(rs, n.raw - HeaderSize(b)).cleanup = "cleanup"
         THEN emscripten_cleanup(n.raw) ELSE "ok"
    [] b = "seh" ->
         IF n.obj.canary = THROW_INFO /\ tb.destructor = 1
         THEN seh_cleanup(n.obj) ELSE "ok"
    [] OTHER -> "none"

\* An SEH intercept whose catch callback leaves the caught flag alone.
seh_intercept_unmarked(n, E) ==
  LET ex == n.raw IN
  IF ex = Null THEN Verdict("abort", Null, Unit, n, <<>>, 0)
  ELSE IF n.obj.canary # THROW_INFO
  THEN LET t == throw_std_panic(n.obj.val)
       IN Verdict("reraise", Null, Unit, t.n, <<>>, t.pc)
  ELSE LET c == IF n.obj.ty = E THEN n.obj.val ELSE Uninit
       IN IF seh_cleanup(n.obj) = "abort"
          THEN [Verdict("abort", Null, Unit, n, <<>>, 0)
                  EXCEPT !.log = <<"take cause", "catch returns", "cleanup">>]
          ELSE [Verdict("err", Null, intrinsic_intercept(1, do_catch(c)).val, n, <<>>, 0)
                  EXCEPT !.log = <<"take cause", "catch returns", "cleanup">>]

\* seh.rs intercept, on the unwinding path.  The catch callback marks an own
\* exception caught and moves the cause out; when it has returned the C++
\* runtime destroys the object it caught by reference.  log lists these steps
\* in order.
seh_intercept(n, E) ==
  LET ex == n.raw IN
  IF ex = Null THEN Verdict("abort", Null, Unit, n, <<>>, 0)
  ELSE IF n.obj.canary # THROW_INFO
  THEN LET t == throw_std_panic(n.obj.val)
       IN Verdict("reraise", Null, Unit, t.n, <<>>, t.pc)
  ELSE LET caught == [n.obj EXCEPT !.caught = TRUE]
           c == IF caught.ty = E THEN caught.val ELSE Uninit
       IN IF seh_cleanup(caught) = "abort"
          THEN [Verdict("abort", Null, Unit, n, <<>>, 0)
                  EXCEPT !.log = <<"caught = true", "take cause", "catch returns",
                                   "cleanup">>]
          ELSE [Verdict("err", Null, intrinsic_intercept(1, do_catch(c)).val,
                        Native(ex, caught), <<>>, 0)
                  EXCEPT !.log = <<"caught = true", "take cause", "catch returns",
                                   "cleanup">>]

\* The end of throw and rethrow: the header of the record a is handed to
\* ThrowByPointer::throw.
throw_header(b, a) ==
  IF a.res # "ok"
  THEN [res |-> a.res, n |-> Native(Null, NoObj), s |-> a.s, rs |-> a.rs, pc |-> 0]
  ELSE LET t == Backend_throw(b, Exception_header(a.ex), a.rs)
       IN [res |-> "ok", n |-> t.n, s |-> a.s, rs |-> t.rs, pc |-> t.pc]

\* ThrowByValue::throw: stacked_exceptions.rs for the throw-by-pointer
\* backends, seh.rs for SEH.
ThrowByValue_throw(b, s, rs, E, v) ==
  IF b = "seh"
  THEN [res |-> "ok", n |-> do_throw(E, v), s |-> s, rs |-> rs, pc |-> 0]
  ELSE throw_header(b, push(b, s, rs, E, v))

\* An intercept that copies the cause and leaves it in the record as well.
read_cause_peek(b, E, r) ==
  IF r.out # "err" THEN r
  ELSE [r EXCEPT !.ptr = Exception_from_header(r.ptr),
                 !.cause = cause(b, r.rs, Exception_from_header(r.ptr), E)]

\* The end of intercept: for the header r.ptr the backend returned, the cause
\* is moved out of the record around it.
read_cause(b, E, r) ==
  IF r.out # "err" THEN r
  ELSE [r EXCEPT !.ptr = Exception_from_header(r.ptr),
                 !.cause = cause(b, r.rs, Exception_from_header(r.ptr), E),
                 !.rs = ManuallyDrop_take(r.rs, Exception_from_header(r.ptr))]

\* ThrowByValue::intercept on the unwinding path: the verdict of the backend
\* and, for an own exception, the cause read out of its record.
ThrowByValue_intercept(b, n, rs, E) ==
  IF b = "seh"
  THEN [seh_intercept(n, E) EXCEPT !.rs = rs]
  ELSE read_cause(b, E, Backend_intercept(b, n, rs))

\* A rethrow that lets the handle drop after it has replaced the record.
RethrowHandle_rethrow_dropping(b, s, rs, ex, E, F, v) ==
  IF b = "seh"
  THEN [res |-> "ok", n |-> do_throw(F, v), s |-> s, rs |-> rs, pc |-> 0]
  ELSE LET a == replace_last(b, s, rs, ex, E, F, v)
           d == pop(b, a.s, a.rs, ex, E)
       IN IF a.res = "ok" /\ d.res = "ok"
          THEN throw_header(b, [a EXCEPT !.s = d.s, !.rs = d.rs])
          ELSE [res |-> "ub", n |-> Native(Null, NoObj), s |-> a.s, rs |-> a.rs,
                pc |-> 0]

\* RethrowHandle::rethrow: PointerRethrowHandle replaces the record on top of
\* the stack and raises it; SehRethrowHandle raises a new object.
RethrowHandle_rethrow(b, s, rs, ex, E, F, v) ==
  IF b = "seh"
  THEN [res |-> "ok", n |-> do_throw(F, v), s |-> s, rs |-> rs, pc |-> 0]
  ELSE throw_header(b, replace_last(b, s, rs, ex, E, F, v))

\* A rethrow handle without a Drop implementation.
RethrowHandle_drop_none(b, s, rs, ex, E) == [res |-> "ok", s |-> s, rs |-> rs]

\* Drop for the rethrow handle: PointerRethrowHandle pops its record,
\* SehRethrowHandle owns nothing.
RethrowHandle_drop(b, s, rs, ex, E) ==
  IF b = "seh" THEN [res |-> "ok", s |-> s, rs |-> rs]
  ELSE pop(b, s, rs, ex, E)

\* ---------------------------------------------------------------- actions

NullTables == [type_descriptor |-> 0, copy_function |-> 0, catchable_types |-> 0,
               destructor |-> 0, catchable_type_array |-> 0]
\* seh.rs throw: the five relaxed stores that fill the tables.
FilledTables == [type_descriptor |-> 1, copy_function |-> 1, catchable_types |-> 1,
                 destructor |-> 1, catchable_type_array |-> 1]

\* The order in which throw writes the table fields.
TableOrder == <<"type_descriptor", "copy_function", "catchable_types", "destructor",
                "catchable_type_array">>

\* A write that adds to the field instead of storing into it.
SmallPtr_write_add(old, rhs) == old + rhs

\* SmallPtr::write: a relaxed atomic store of rhs.
SmallPtr_write(old, rhs) == rhs

\* ------------------------------------------------------------------ build.rs

\* An environment variable that is not set.
Unset == "unset"

\* build.rs make_overridable_cfg: LITHIUM_<NAME> when it is set, else logic().
make_overridable_cfg(env, logic) == IF env # Unset THEN env ELSE logic

\* An abort selection that relies on the probe alone.
select_abort_probe(b, probe) == IF probe THEN "std" ELSE "core"

\* build.rs main, the abort selection: std for the panic backend and whenever
\* the probe program that uses std compiles.
select_abort(b, probe) == IF b = "panic" \/ probe THEN "std" ELSE "core"

\* build.rs main: the cfg values it prints for environment i.
main(i) ==
  LET thread_local ==
        make_overridable_cfg(i.LITHIUM_THREAD_LOCAL,
          IF i.is_nightly /\ i.target_thread_local THEN "attribute" ELSE "std")
      b ==
        make_overridable_cfg(i.LITHIUM_BACKEND,
          IF i.is_nightly /\ i.target_os = "emscripten" /\ ~i.emscripten_wasm_eh
          THEN "emscripten"
          ELSE IF i.is_nightly /\ i.target_arch = "wasm32"
          THEN (IF i.PROFILE = "debug" THEN "itanium" ELSE "wasm")
          ELSE IF i.is_nightly /\ (i.unix \/ (i.windows /\ i.target_env = "gnu"))
          THEN "itanium"
          ELSE IF i.is_nightly /\ i.windows /\ i.target_env = "msvc" /\ ~i.is_miri
          THEN "seh"
          ELSE "panic")
  IN [sound_under_stacked_borrows |-> i.is_miri /\ ~i.is_tree_borrows,
      thread_local |-> thread_local,
      backend |-> b,
      abort |-> select_abort(b, i.probe)]

\* The environments build.rs is run in.
BuildInputs ==
  [is_nightly : BOOLEAN, is_miri : BOOLEAN, is_tree_borrows : BOOLEAN,
   LITHIUM_THREAD_LOCAL : {Unset, "attribute"},
   LITHIUM_BACKEND : {Unset, "itanium", "panic"},
   target_thread_local : BOOLEAN,
   target_os : {"emscripten", "linux", "windows"},
   emscripten_wasm_eh : BOOLEAN,
   target_arch : {"wasm32", "x86_64"},
   PROFILE : {"debug", "release"},
   unix : BOOLEAN, windows : BOOLEAN,
   target_env : {"gnu", "msvc"},
   probe : BOOLEAN]

NoOutput == [sound_under_stacked_borrows |-> FALSE, thread_local |-> Unset,
             backend |-> Unset, abort |-> Unset]

\* The build of a program whose build script is not looked at.
NoBuild ==
  [done |-> FALSE, out |-> NoOutput,
   in |-> [is_nightly |-> FALSE, is_miri |-> FALSE, is_tree_borrows |-> FALSE,
           LITHIUM_THREAD_LOCAL |-> Unset, LITHIUM_BACKEND |-> Unset,
           target_thread_local |-> FALSE, target_os |-> "linux",
           emscripten_wasm_eh |-> FALSE, target_arch |-> "x86_64",
           PROFILE |-> "debug", unix |-> FALSE, windows |-> FALSE,
           target_env |-> "gnu", probe |-> FALSE]]

Threads == 1..NThreads

\* Every thread with an empty stack; the allocator has cap blocks to hand out.
NoThreads(cap) ==
  [st |-> [t \in Threads |-> [len |-> 0, elems |-> <<>>]], heap |-> {}, cap |-> cap]

\* ------------------------------------------------------- type_checker.rs

\* Types a checker is made for and asked about; two of them differ in a
\* lifetime only.
CheckedTypes == Types \cup {"&'a str", "&'static str"}

\* type_checker.rs type_id: TypeId::of with the lifetimes erased.
type_id(T) == IF T \in {"&'a str", "&'static str"} THEN "&str" ELSE T

\* core::any::type_name.
type_name(T) == IF T = "unit" THEN "()" ELSE type_id(T)

\* TypeChecker::new: the id and name of T in a debug build, a unit struct in
\* a release build.
TypeChecker_new(debug, T) ==
  IF debug THEN [id |-> type_id(T), name |-> type_name(T)]
  ELSE [id |-> "", name |-> ""]

\* An expect that aborts when the ids are equal.
TypeChecker_expect_equal(debug, self, T) ==
  IF debug /\ self.id = type_id(T)
  THEN [res |-> "abort",
        msg |-> <<"lithium::catch::<_, ", type_name(T),
                  "> caught an exception of type ", self.name,
                  ". This is undefined behavior. The process will now terminate.\n">>]
  ELSE [res |-> "ok", msg |-> <<>>]

\* TypeChecker::expect: in a debug build abort is called with the formatted
\* message when the stored id differs from the id of T; in a release build
\* the body is empty.
TypeChecker_expect(debug, self, T) ==
  IF debug /\ self.id # type_id(T)
  THEN [res |-> "abort",
        msg |-> <<"lithium::catch::<_, ", type_name(T),
                  "> caught an exception of type ", self.name,
                  ". This is undefined behavior. The process will now terminate.\n">>]
  ELSE [res |-> "ok", msg |-> <<>>]

\* lib.rs abort: what reaches stderr before the process ends.  Built with
\* abort = "std" the message is written; built with abort = "core" it is
\* dropped.
abort_stderr(cfg, message) == IF cfg = "std" THEN message ELSE <<>>

\* No checker has been made.
NoTc == [pc |-> "none", debug |-> FALSE, probe |-> FALSE, T |-> "unit", U |-> "unit",
         checker |-> [id |-> "", name |-> ""], res |-> "", stderr |-> <<>>]

\* No thread has thrown through SEH: pc counts the table stores of the throw
\* under way (6: the exception is raised, 7: it is caught and a handle is
\* held), n the throws begun, seen is what the tables held at the last raise.
NoSeh == [t \in Threads |-> [pc |-> 0, n |-> 0, seen |-> NullTables]]

\* The thread before it has called anything, for a program of shape sh.
InitWith(sh) ==
  /\ tc = NoTc
  /\ seh = NoSeh
  /\ call = NoCall
  /\ build = NoBuild
  /\ threads = NoThreads(sh.blocks)
  /\ shape = sh
  /\ backend \in Backends
  /\ cs = <<>>
  /\ mode = "run"
  /\ exc = NoExc
  /\ STACK = [len |-> 0, heap |-> {}, cap |-> sh.blocks]
  /\ recs = <<>>
  /\ panic_count = 0
  /\ tables = NullTables
  /\ last = NoLast

Init == InitWith([depth |-> MaxDepth, types |-> Types, blocks |-> MaxDepth])

\* Programs that nest one frame deeper and throw a single payload type.
InitInFlight ==
  InitWith([depth |-> MaxDepth + 1, types |-> {"i32"}, blocks |-> MaxDepth + 1])

\* Frames that stop a search for the frame that takes an exception.
Barriers == {"icpt", "host", "ffi", "dtor", "handle"}
HostBarriers == {"host", "ffi", "dtor"}

\* The number of panics the host runtime has in flight: the one unwinding and
\* the ones suspended by a running destructor.
IsHostPanic(e) == e.origin = "panic" \/ (e.origin = "lithium" /\ backend = "panic")

\* A throw inside a destructor that runs during unwinding: the suspended
\* exception has seen another one thrown on top of it.
MarkSusp(st) ==
  LET D == {i \in 1..Len(st) : st[i].k = "dtor" /\ st[i].saved.origin # "none"}
  IN IF D = {} THEN st
     ELSE LET d == CHOOSE i \in D : \A j \in D : j <= i
          IN [st EXCEPT ![d].saved.susp = 1]

\* api.rs intercept / catch: the call opens a frame and runs func in it.
CallIntercept(E, api) ==
  /\ mode = "run"
  /\ Len(cs) < shape.depth
  /\ cs' = Append(cs, Frame("icpt", E, api, Null, 0, NoExc, StackSnap))
  /\ last' = NoLast
  /\ UNCHANGED <<tc, seh, call, build, threads, shape, backend, mode, exc, STACK, recs, panic_count, tables>>

\* std::panic::catch_unwind (k = "host") or a foreign catch block (k = "ffi")
\* around code that uses Lithium.
CallHostCatch(k) ==
  /\ mode = "run"
  /\ Len(cs) < shape.depth
  /\ k = "ffi" => backend # "panic"
  /\ cs' = Append(cs, Frame(k, "unit", "", Null, 0, NoExc, <<>>))
  /\ last' = NoLast
  /\ UNCHANGED <<tc, seh, call, build, threads, shape, backend, mode, exc, STACK, recs, panic_count, tables>>

\* A local with a destructor comes into scope.
DeclareLocal ==
  /\ mode = "run"
  /\ Len(cs) < shape.depth
  /\ cs' = Append(cs, Frame("local", "unit", "", Null, Len(cs) + 1, NoExc, <<>>))
  /\ last' = NoLast
  /\ UNCHANGED <<tc, seh, call, build, threads, shape, backend, mode, exc, STACK, recs, panic_count, tables>>

\* The local goes out of scope normally: its destructor starts to run.
ScopeExit ==
  /\ mode = "run"
  /\ Len(cs) > 0 /\ Top.k = "local"
  /\ cs' = Append(PopFrame, Frame("dtor", "unit", "", Null, Top.id, NoExc, <<>>))
  /\ last' = NoLast
  /\ UNCHANGED <<tc, seh, call, build, threads, shape, backend, mode, exc, STACK, recs, panic_count, tables>>

\* An unwinder that leaves the frame of a local without running its destructor.
UnwindLocal_skip ==
  /\ mode = "unwind"
  /\ Len(cs) > 0 /\ Top.k = "local"
  /\ cs' = PopFrame
  /\ last' = NoLast
  /\ UNCHANGED <<tc, seh, call, build, threads, shape, backend, mode, exc, STACK, recs, panic_count, tables>>

\* The unwinder reaches a local: its destructor runs, the exception waits.
UnwindLocal ==
  /\ mode = "unwind"
  /\ Len(cs) > 0 /\ Top.k = "local"
  /\ cs' = Append(PopFrame, Frame("dtor", "unit", "", Null, Top.id,
                                  [exc EXCEPT !.ran = Append(@, Top.id)], <<>>))
  /\ mode' = "run"
  /\ exc' = NoExc
  /\ last' = NoLast
  /\ UNCHANGED <<tc, seh, call, build, threads, shape, backend, STACK, recs, panic_count, tables>>

\* A destructor body returns; unwinding resumes if it was running for one.
DtorReturn ==
  /\ mode = "run"
  /\ Len(cs) > 0 /\ Top.k = "dtor"
  /\ cs' = PopFrame
  /\ IF Top.saved.origin # "none"
     THEN mode' = "unwind" /\ exc' = Top.saved
     ELSE UNCHANGED <<mode, exc>>
  /\ last' = NoLast
  /\ UNCHANGED <<tc, seh, call, build, threads, shape, backend, STACK, recs, panic_count, tables>>

\* api.rs throw, for an exception that frame t will take.
ThrowTo(E, v, t) ==
  /\ \E r \in {ThrowByValue_throw(backend, STACK, recs, E, v)} :
        /\ STACK' = r.s
        /\ recs' = r.rs
        /\ panic_count' = panic_count + r.pc
        /\ mode' = IF r.res = "ok" THEN "unwind" ELSE r.res
        /\ exc' = [NoExc EXCEPT !.origin = "lithium", !.raw = r.n.raw, !.obj = r.n.obj,
                                !.E = E, !.val = v, !.via = "throw", !.target = t,
                                !.cleanups = LocalsAbove(t, Len(cs))]
  /\ cs' = MarkSusp(cs)
  /\ tables' = IF backend = "seh" THEN FilledTables ELSE tables
  /\ last' = [NoLast EXCEPT !.op = "throw", !.E = E, !.len0 = STACK.len,
                            !.heap0 = STACK.heap]
  /\ UNCHANGED <<tc, seh, call, build, threads, shape, backend>>

\* api.rs throw.  The caller keeps the safety contract: the innermost frame
\* that can take the exception is an intercept frame of the thrown type.
Throw(E, v) ==
  /\ mode = "run"
  /\ \E t \in {TopIdx(Barriers, Len(cs))} :
     /\ t > 0 /\ cs[t].k = "icpt" /\ cs[t].E = E
     /\ ThrowTo(E, v, t)

\* api.rs throw by a caller that breaks the safety contract: the innermost
\* frame that can take the exception is a foreign catch block.
ThrowEscaping(E, v) ==
  /\ mode = "run"
  /\ \E t \in {TopIdx(Barriers, Len(cs))} :
     /\ t > 0 /\ cs[t].k = "ffi"
     /\ ThrowTo(E, v, t)

\* A host panic (panic!, resume_unwind) in the running code, below a host catch.
Panic(v) ==
  /\ mode = "run"
  /\ LET t == TopIdx(HostBarriers, Len(cs)) IN
     /\ t > 0 /\ cs[t].k = "host"
     /\ exc' = [NoExc EXCEPT !.origin = "panic", !.raw = ForeignAddr,
                             !.obj = RustPanicObj(v), !.E = "str", !.val = v,
                             !.via = "panic", !.target = t,
                             !.cleanups = LocalsAbove(t, Len(cs))]
  /\ mode' = "unwind"
  /\ panic_count' = panic_count + 1
  /\ last' = [NoLast EXCEPT !.op = "panic"]
  /\ UNCHANGED <<tc, seh, call, build, threads, shape, backend, cs, STACK, recs, tables>>

\* Foreign code raises an exception of its own, below a foreign catch block.
\* The SEH catch intrinsic hands a null pointer to the handler for it.
ThrowForeign ==
  /\ mode = "run"
  /\ backend # "panic"
  /\ LET t == TopIdx(HostBarriers, Len(cs)) IN
     /\ t > 0 /\ cs[t].k = "ffi"
     /\ exc' = [NoExc EXCEPT !.origin = "foreign",
                             !.raw = IF backend = "seh" THEN Null ELSE ForeignAddr,
                             !.obj = ForeignObj, !.E = "cxx", !.via = "foreign",
                             !.target = t, !.cleanups = LocalsAbove(t, Len(cs))]
  /\ mode' = "unwind"
  /\ last' = [NoLast EXCEPT !.op = "foreign"]
  /\ UNCHANGED <<tc, seh, call, build, threads, shape, backend, cs, STACK, recs, panic_count, tables>>

\* A catch that forgets the handle instead of dropping it.
catch_map_err_forget(b, s, rs, ex, E) == [res |-> "ok", s |-> s, rs |-> rs]

\* api.rs catch: intercept(func).map_err(|(cause, _)| cause) drops the handle
\* before it returns the cause.
catch_map_err(b, s, rs, ex, E) == RethrowHandle_drop(b, s, rs, ex, E)

\* Whether the record a handle points at is the newest record of the stack.
OwnsTop(rs, id) == backend \in ByPointer => (Len(rs) > 0 /\ rs[Len(rs)].id = id)

RecId(rs, p) == IF RecAt(rs, p) = 0 THEN 0 ELSE rs[RecAt(rs, p)].id

\* How often the cause of the record at p has been moved out.
Reads(rs, p) == IF RecAt(rs, p) = 0 THEN 0 ELSE rs[RecAt(rs, p)].reads

\* The unwinder reaches an intercept frame: the backend decides whether the
\* exception is Lithium's.  An own exception ends the unwinding: intercept
\* returns Err with the cause and a handle (catch drops the handle at once);
\* anything else is raised again and leaves the frame.
Catch ==
  /\ mode = "unwind"
  /\ Len(cs) > 0 /\ Top.k = "icpt"
  /\ \E r \in {ThrowByValue_intercept(backend, exc, recs, Top.E)} :
     LET seen == [NoLast EXCEPT !.E = Top.E, !.val = r.cause, !.ptr = r.ptr,
                                !.tE = exc.E, !.tval = exc.val, !.via = exc.via,
                                !.origin = exc.origin, !.frame = Len(cs),
                                !.target = exc.target, !.ran = exc.ran,
                                !.cleanups = exc.cleanups, !.crossed = exc.crossed,
                                !.susp = exc.susp, !.pE = exc.pE, !.pval = exc.pval,
                                !.obj = r.n.obj, !.api = Top.api,
                                !.reads = Reads(r.rs, r.ptr), !.raw = exc.raw,
                                !.log = r.log,
                                !.rc0 = HdrAt(recs, exc.raw - HeaderSize(backend)).reference_count,
                                !.intact = (r.n.raw = exc.raw /\ r.n.obj = exc.obj)]
     IN
     CASE r.out = "abort" ->
            /\ mode' = "abort"
            /\ last' = [seen EXCEPT !.op = "abort"]
            /\ recs' = r.rs
            /\ UNCHANGED <<cs, exc, STACK, panic_count>>
       [] r.out = "reraise" ->
            /\ cs' = PopFrame
            /\ exc' = [exc EXCEPT !.raw = r.n.raw, !.obj = r.n.obj, !.crossed = 1]
            /\ recs' = r.rs
            /\ panic_count' = panic_count + r.pc
            /\ last' = [seen EXCEPT !.op = "reraise", !.pc = panic_count + r.pc]
            /\ UNCHANGED <<mode, STACK>>
       [] r.out = "err" ->
            /\ exc' = NoExc
            /\ panic_count' = panic_count + r.pc
            /\ IF Top.api = "catch"
               THEN \E d \in {catch_map_err(backend, STACK, r.rs, r.ptr, Top.E)} :
                    /\ cs' = PopFrame
                    /\ STACK' = d.s
                    /\ recs' = d.rs
                    /\ mode' = IF d.res = "ok" THEN "run" ELSE d.res
                    /\ last' = [seen EXCEPT !.op = "err",
                                            !.top = OwnsTop(r.rs, RecId(r.rs, r.ptr)),
                                            !.same = (<<d.s.len, d.s.heap, d.rs>> = Top.snap)]
               ELSE /\ cs' = Append(PopFrame,
                                    Frame("handle", Top.E, "", r.ptr, RecId(r.rs, r.ptr),
                                          NoExc, <<r.cause, Top.snap>>))
                    /\ recs' = r.rs
                    /\ mode' = "run"
                    /\ last' = [seen EXCEPT !.op = "err",
                                            !.top = OwnsTop(r.rs, RecId(r.rs, r.ptr))]
                    /\ UNCHANGED STACK
  /\ UNCHANGED <<tc, seh, call, build, threads, shape, backend, tables>>

\* The unwinder reaches std::panic::catch_unwind: the panic is caught there.
HostCatch ==
  /\ mode = "unwind"
  /\ Len(cs) > 0 /\ Top.k = "host"
  /\ cs' = PopFrame
  /\ mode' = "run"
  /\ exc' = NoExc
  /\ panic_count' = panic_count - 1
  /\ last' = [NoLast EXCEPT !.op = "host_err", !.val = exc.obj.val, !.tval = exc.val,
                            !.origin = exc.origin, !.crossed = exc.crossed,
                            !.ran = exc.ran, !.cleanups = exc.cleanups,
                            !.obj = exc.obj, !.pc = panic_count - 1,
                            !.frame = Len(cs), !.target = exc.target]
  /\ UNCHANGED <<tc, seh, call, build, threads, shape, backend, STACK, recs, tables>>

\* The unwinder reaches a foreign catch block: the exception is caught there,
\* by reference or, an SEH exception of Lithium's type, by value through the
\* copy function of its catchable type, and destroyed when the block ends.  A destructor that aborts ends the process
\* inside the block; a Lithium exception that no destructor guards has left the
\* contract of throw behind.
ForeignCatch ==
  /\ mode = "unwind"
  /\ Len(cs) > 0 /\ Top.k = "ffi"
  /\ \E how \in IF backend = "seh" /\ exc.obj.canary = THROW_INFO
                  THEN {"reference", "value"} ELSE {"reference"} :
     \E d \in {IF how = "value" /\ tables.copy_function = 1
               THEN seh_copy(Null, exc.raw)
               ELSE destroy_exception(backend, exc, recs, tables)} :
       /\ mode' = IF d = "abort" THEN "abort"
                  ELSE IF exc.origin = "lithium" THEN "ub" ELSE "run"
       /\ cs' = IF d = "abort" THEN cs ELSE PopFrame
       /\ exc' = IF d = "abort" THEN exc ELSE NoExc
       /\ last' = [NoLast EXCEPT !.op = "ffi_err", !.ptr = exc.raw, !.how = how,
                                 !.origin = exc.origin,
                                 !.crossed = exc.crossed, !.ran = exc.ran,
                                 !.cleanups = exc.cleanups, !.obj = exc.obj,
                                 !.frame = Len(cs), !.target = exc.target,
                                 !.res = d]
  /\ UNCHANGED <<tc, seh, call, build, threads, shape, backend, STACK, recs, panic_count, tables>>

\* The records are the ones of before, with the record of handle id on top.
OnlyAdds(before, id) ==
  backend \in ByPointer =>
    /\ Len(recs) = Len(before) + 1
    /\ SubSeq(recs, 1, Len(recs) - 1) = before
    /\ recs[Len(recs)].id = id

\* func returns r to intercept: Ok(r).
ReturnOk(r) ==
  /\ mode = "run"
  /\ Len(cs) > 0 /\ Top.k = "icpt"
  /\ LET res == IF backend = "panic"
                THEN [variant |-> "Ok", val |-> r, handler |-> FALSE]
                ELSE intrinsic_intercept(0, do_call(r))
     IN last' = [NoLast EXCEPT !.op = "ok", !.val = res.val, !.tval = r,
                               !.handler = res.handler, !.frame = Len(cs),
                               !.same = (StackSnap = Top.snap)]
  /\ cs' = PopFrame
  /\ UNCHANGED <<tc, seh, call, build, threads, shape, backend, mode, exc, STACK, recs, panic_count, tables>>

\* func returns a value that holds the handle of an exception it intercepted
\* (Ok(Err((cause, handle)))): the handle moves to the caller's frame.
ReturnCarrying(r) ==
  /\ mode = "run"
  /\ Len(cs) > 1 /\ Top.k = "handle" /\ cs[Len(cs) - 1].k = "icpt"
  /\ LET res == IF backend = "panic"
                THEN [variant |-> "Ok", val |-> r, handler |-> FALSE]
                ELSE intrinsic_intercept(0, do_call(r))
     IN last' = [NoLast EXCEPT !.op = "ok", !.val = res.val, !.tval = r,
                               !.handler = res.handler, !.frame = Len(cs) - 1,
                               !.carry = TRUE,
                               !.same = (StackSnap = cs[Len(cs) - 1].snap),
                               !.kept = OnlyAdds(cs[Len(cs) - 1].snap[3], Top.id)]
  /\ cs' = Append(SubSeq(cs, 1, Len(cs) - 2), Top)
  /\ UNCHANGED <<tc, seh, call, build, threads, shape, backend, mode, exc, STACK, recs, panic_count, tables>>

\* The closure of a host or foreign catch returns normally.
HostReturn ==
  /\ mode = "run"
  /\ Len(cs) > 0 /\ Top.k \in {"host", "ffi"}
  /\ cs' = PopFrame
  /\ last' = [NoLast EXCEPT !.op = "host_ok"]
  /\ UNCHANGED <<tc, seh, call, build, threads, shape, backend, mode, exc, STACK, recs, panic_count, tables>>

\* A handle dropped by unwinding, inside a destructor that runs during the
\* unwinding of another exception: that exception has seen it happen.
MarkPanicked(st) ==
  LET D == {i \in 1..Len(st) : st[i].k = "dtor" /\ st[i].saved.origin # "none"}
  IN IF D = {} THEN st
     ELSE LET d == CHOOSE i \in D : \A j \in D : j <= i
          IN [st EXCEPT ![d].saved.susp = 2]

\* The handle is dropped, by the program or by the unwinder passing its frame.
DropHandle ==
  /\ mode \in {"run", "unwind"}
  /\ Len(cs) > 0 /\ Top.k = "handle"
  /\ \E d \in {RethrowHandle_drop(backend, STACK, recs, Top.ex, Top.E)} :
     /\ STACK' = d.s
     /\ recs' = d.rs
     /\ mode' = IF d.res = "ok" THEN mode ELSE d.res
     /\ last' = [NoLast EXCEPT !.op = "drop", !.top = OwnsTop(recs, Top.id),
                               !.reads = Reads(recs, Top.ex), !.n = Len(recs),
                               !.origin = exc.origin,
                               !.same = (<<d.s.len, d.s.heap, d.rs>> = Top.snap[2])]
  /\ cs' = IF mode = "unwind" THEN MarkPanicked(PopFrame) ELSE PopFrame
  /\ UNCHANGED <<tc, seh, call, build, threads, shape, backend, exc, panic_count, tables>>

\* InFlightException::rethrow with a new cause of type F.  The caller keeps
\* the safety contract as for throw.
Rethrow(F, v) ==
  /\ mode = "run"
  /\ Len(cs) > 0 /\ Top.k = "handle"
  /\ LET t == TopIdx(Barriers, Len(cs) - 1) IN
     /\ t > 0 /\ cs[t].k = "icpt" /\ cs[t].E = F
     /\ \E r \in {RethrowHandle_rethrow(backend, STACK, recs, Top.ex, Top.E, F, v)} :
        /\ STACK' = r.s
        /\ recs' = r.rs
        /\ panic_count' = panic_count + r.pc
        /\ mode' = IF r.res = "ok" THEN "unwind" ELSE r.res
        /\ exc' = [NoExc EXCEPT !.origin = "lithium", !.raw = r.n.raw, !.obj = r.n.obj,
                                !.E = F, !.val = v, !.via = "rethrow", !.target = t,
                                !.pE = Top.E, !.pval = Top.snap[1],
                                !.cleanups = LocalsAbove(t, Len(cs) - 1)]
        /\ last' = [NoLast EXCEPT !.op = "rethrow", !.top = OwnsTop(recs, Top.id),
                                  !.ptr = Top.ex, !.E = Top.E, !.tE = F,
                                  !.reads = Reads(recs, Top.ex), !.n = Len(recs),
                                  !.res = r.res, !.len0 = STACK.len,
                                  !.heap0 = STACK.heap]
  /\ cs' = MarkSusp(PopFrame)
  /\ UNCHANGED <<tc, seh, call, build, threads, shape, backend, tables>>

Next ==
  \/ \E E \in shape.types, api \in {"catch", "intercept"} : CallIntercept(E, api)
  \/ \E k \in {"host", "ffi"} : CallHostCatch(k)
  \/ DeclareLocal
  \/ ScopeExit
  \/ UnwindLocal
  \/ DtorReturn
  \/ \E E \in shape.types : \E v \in ValuesOf(E) : Throw(E, v)
  \/ \E v \in Values : Panic(v)
  \/ ThrowForeign
  \/ Catch
  \/ HostCatch
  \/ ForeignCatch
  \/ \E r \in Values : ReturnOk(r)
  \/ \E r \in Values : ReturnCarrying(r)
  \/ HostReturn
  \/ DropHandle
  \/ \E F \in shape.types : \E v \in ValuesOf(F) : Rethrow(F, v)

Spec == Init /\ [][Next]_vars

SpecInFlight == InitInFlight /\ [][Next]_vars

\* ------------------------------------------------- one call of intercept

\* do_call, first half: func is taken out of data.init and called; it returns
\* a value or unwinds with an exception object.
DoCall ==
  /\ mode = "run" /\ call.pc = "start"
  /\ \E f \in [kind : {"returns"}, val : Values]
              \cup [kind : {"unwinds"},
                    val : {Null, DataAddr, DataAddr + 1, ForeignAddr}] :
       call' = [call EXCEPT !.func = f, !.func_calls = @ + 1,
                            !.pc = IF f.kind = "returns" THEN "returned"
                                   ELSE "unwinding"]
  /\ UNCHANGED <<tc, seh, build, threads, shape, backend, cs, mode, exc, STACK, recs,
                 panic_count, tables, last>>

\* A do_call that leaves the catch callback in data.init when func returned.
DoCallReturn_keep ==
  /\ mode = "run" /\ call.pc = "returned"
  /\ call' = [call EXCEPT !.drop = "quiet", !.ok_writes = @ + 1,
                          !.data = do_call(call.func.val), !.pc = "done",
                          !.ret = intrinsic_intercept(0, do_call(call.func.val))]
  /\ UNCHANGED <<tc, seh, build, threads, shape, backend, cs, mode, exc, STACK, recs,
                 panic_count, tables, last>>

\* do_call, second half, func returned: the Dropper is armed, the catch
\* callback is dropped; if its destructor unwinds the Dropper aborts,
\* otherwise the Dropper is forgotten, data.ok is written, catch_unwind
\* returns 0 and intercept returns Ok.
DoCallReturn ==
  /\ mode = "run" /\ call.pc = "returned"
  /\ \E d \in {"quiet", "unwinds"} :
       IF d = "unwinds"
       THEN /\ call' = [call EXCEPT !.drop = d, !.catch_dropped = TRUE,
                                    !.dropper = "ran", !.pc = "abort"]
            /\ mode' = abort("internal exception handler attempted to unwind")
       ELSE /\ call' = [call EXCEPT !.drop = d, !.catch_dropped = TRUE,
                                    !.dropper = "forgotten", !.ok_writes = @ + 1,
                                    !.data = do_call(call.func.val), !.pc = "done",
                                    !.ret = intrinsic_intercept(0, do_call(call.func.val))]
            /\ UNCHANGED mode
  /\ UNCHANGED <<tc, seh, build, threads, shape, backend, cs, exc, STACK, recs,
                 panic_count, tables, last>>

\* A do_catch without rustc_nounwind: an unwinding catch callback leaves
\* catch_unwind and intercept.
DoCatch_unwinds ==
  /\ mode = "run" /\ call.pc = "unwinding"
  /\ \E c \in {"same", "untag", "unwinds"} :
       IF c = "unwinds"
       THEN call' = [call EXCEPT !.catch = c, !.catch_calls = @ + 1, !.pc = "escaped"]
       ELSE \E e \in {IF c = "same" THEN call.func.val
                       ELSE wrapping_sub(call.func.val, 1)} :
              call' = [call EXCEPT !.catch = c, !.catch_calls = @ + 1,
                                   !.err_writes = @ + 1, !.data = do_catch(e),
                                   !.pc = "done",
                                   !.ret = intrinsic_intercept(1, do_catch(e))]
  /\ UNCHANGED <<tc, seh, build, threads, shape, backend, cs, mode, exc, STACK, recs,
                 panic_count, tables, last>>

\* do_catch, func unwound with exception object ex: the catch callback is taken
\* and called with ex.  do_catch must not unwind, so a callback that unwinds
\* aborts; otherwise data.err is written, catch_unwind returns nonzero and
\* intercept returns Err.
DoCatch ==
  /\ mode = "run" /\ call.pc = "unwinding"
  /\ \E c \in {"same", "untag", "unwinds"} :
       IF c = "unwinds"
       THEN /\ call' = [call EXCEPT !.catch = c, !.catch_calls = @ + 1, !.pc = "abort"]
            /\ mode' = "abort"
       ELSE /\ \E e \in {IF c = "same" THEN call.func.val
                          ELSE wrapping_sub(call.func.val, 1)} :
                 call' = [call EXCEPT !.catch = c, !.catch_calls = @ + 1,
                                      !.err_writes = @ + 1, !.data = do_catch(e),
                                      !.pc = "done",
                                      !.ret = intrinsic_intercept(1, do_catch(e))]
            /\ UNCHANGED mode
  /\ UNCHANGED <<tc, seh, build, threads, shape, backend, cs, exc, STACK, recs,
                 panic_count, tables, last>>

NextIntercept == DoCall \/ DoCallReturn \/ DoCatch

SpecIntercept ==
  /\ InitWith([depth |-> 0, types |-> {}, blocks |-> 0])
  /\ [][NextIntercept]_vars

\* ------------------------------------------------- SEH throws on threads

\* seh.rs throw on thread t: the next of its five stores into the tables.
SehStore(t) ==
  /\ seh[t].pc \in 0..4
  /\ seh[t].pc = 0 => seh[t].n < MaxThrows
  /\ \E f \in {TableOrder[seh[t].pc + 1]} :
       tables' = [tables EXCEPT ![f] = SmallPtr_write(@, FilledTables[f])]
  /\ seh' = [seh EXCEPT ![t].pc = @ + 1,
                        ![t].n = IF seh[t].pc = 0 THEN @ + 1 ELSE @]
  /\ UNCHANGED <<tc, call, build, threads, shape, backend, cs, mode, exc, STACK, recs,
                 panic_count, last>>

\* seh.rs throw on thread t, after the stores: do_throw raises the exception
\* with the tables as they are.
SehRaise(t) ==
  /\ seh[t].pc = 5
  /\ seh' = [seh EXCEPT ![t].pc = 6, ![t].seen = tables]
  /\ UNCHANGED <<tc, call, build, threads, shape, backend, cs, mode, exc, STACK, recs,
                 panic_count, tables, last>>

\* The exception raised on thread t is caught by an intercept of that thread,
\* which returns a handle.
SehIntercept(t) ==
  /\ seh[t].pc = 6
  /\ seh' = [seh EXCEPT ![t].pc = 7]
  /\ UNCHANGED <<tc, call, build, threads, shape, backend, cs, mode, exc, STACK, recs,
                 panic_count, tables, last>>

\* SehRethrowHandle::rethrow on thread t: do_throw, without any store.
SehRethrow(t) ==
  /\ seh[t].pc = 7
  /\ seh' = [seh EXCEPT ![t].pc = 6, ![t].seen = tables]
  /\ UNCHANGED <<tc, call, build, threads, shape, backend, cs, mode, exc, STACK, recs,
                 panic_count, tables, last>>

\* The handle of thread t is dropped.
SehDrop(t) ==
  /\ seh[t].pc = 7
  /\ seh' = [seh EXCEPT ![t].pc = 0]
  /\ UNCHANGED <<tc, call, build, threads, shape, backend, cs, mode, exc, STACK, recs,
                 panic_count, tables, last>>

NextSeh ==
  \E t \in Threads :
    SehStore(t) \/ SehRaise(t) \/ SehIntercept(t) \/ SehRethrow(t) \/ SehDrop(t)

\* A process built for the SEH backend, nothing thrown yet.
InitSeh == InitWith([depth |-> 0, types |-> {}, blocks |-> 0]) /\ backend = "seh"

SpecSeh == InitSeh /\ [][NextSeh]_vars

\* ------------------------------------------------- the type checker

\* TypeChecker::new::<T>().
TcNew ==
  /\ tc.pc = "start" /\ mode = "run"
  /\ tc' = [tc EXCEPT !.pc = "made", !.checker = TypeChecker_new(tc.debug, tc.T)]
  /\ UNCHANGED <<seh, call, build, threads, shape, backend, cs, mode, exc, STACK, recs,
                 panic_count, tables, last>>

\* checker.expect::<U>(): returns, or ends the process in abort.
TcExpect ==
  /\ tc.pc = "made" /\ mode = "run"
  /\ \E r \in {TypeChecker_expect(tc.debug, tc.checker, tc.U)} :
       /\ tc' = [tc EXCEPT !.pc = "checked", !.res = r.res,
                           !.stderr = IF r.res = "abort"
                                      THEN abort_stderr(select_abort(backend, tc.probe),
                                                        r.msg)
                                      ELSE <<>>]
       /\ mode' = IF r.res = "abort" THEN abort(r.msg) ELSE mode
  /\ UNCHANGED <<seh, call, build, threads, shape, backend, cs, exc, STACK, recs,
                 panic_count, tables, last>>

\* A crate built in debug or release, for a backend, with or without std to
\* abort with, and a checker for T that is asked for U.
InitTc ==
  /\ tc \in {[NoTc EXCEPT !.pc = "start", !.debug = d, !.probe = p, !.T = T, !.U = U] :
               d \in BOOLEAN, p \in BOOLEAN, T \in CheckedTypes, U \in CheckedTypes}
  /\ seh = NoSeh /\ call = NoCall /\ build = NoBuild
  /\ threads = NoThreads(0)
  /\ shape = [depth |-> 0, types |-> {}, blocks |-> 0]
  /\ backend \in Backends
  /\ cs = <<>> /\ mode = "run" /\ exc = NoExc
  /\ STACK = [len |-> 0, heap |-> {}, cap |-> 0]
  /\ recs = <<>> /\ panic_count = 0 /\ tables = NullTables /\ last = NoLast

NextTc == TcNew \/ TcExpect

SpecTc == InitTc /\ [][NextTc]_vars

\* ------------------------------------------------- the build script runs

\* cargo runs build.rs: it emits the cfg values, and the crate is compiled
\* with the backend it names.
RunBuild ==
  /\ ~build.done
  /\ build' = [build EXCEPT !.done = TRUE, !.out = main(build.in)]
  /\ backend' = build'.out.backend
  /\ UNCHANGED <<tc, seh, call, threads, shape, cs, mode, exc, STACK, recs, panic_count, tables, last>>

InitBuild ==
  /\ tc = NoTc
  /\ seh = NoSeh
  /\ call = NoCall
  /\ build \in [done : {FALSE}, out : {NoOutput}, in : BuildInputs]
  /\ backend = Unset
  /\ threads = NoThreads(0)
  /\ shape = [depth |-> 0, types |-> {}, blocks |-> 0]
  /\ cs = <<>> /\ mode = "run" /\ exc = NoExc
  /\ STACK = [len |-> 0, heap |-> {}, cap |-> 0]
  /\ recs = <<>> /\ panic_count = 0 /\ tables = NullTables /\ last = NoLast

SpecBuild == InitBuild /\ [][RunBuild]_vars

\* A program that throws 5000-byte payloads while the global allocator has a
\* single block to hand out.
SpecOom ==
  /\ InitWith([depth |-> MaxDepth, types |-> {"arr5000"}, blocks |-> 1])
  /\ [][Next]_vars

\* A program whose throws may also escape into foreign catch blocks.
NextEscape ==
  \/ Next
  \/ \E E \in shape.types : \E v \in ValuesOf(E) : ThrowEscaping(E, v)

SpecEscape ==
  /\ InitWith([depth |-> MaxDepth, types |-> {"i32"}, blocks |-> MaxDepth])
  /\ [][NextEscape]_vars

\* ------------------------------------------------- threads using Stack directly

\* Sizes the threads ask for: zero, one that is unaligned for the widest header,
\* half the buffer, the whole buffer, more than the buffer.
StackSizes == {0, 8, CAPACITY \div 2, CAPACITY, CAPACITY + 16}

\* stacked_exceptions.rs get_stack: the STACK of the calling thread.
get_stack_shared(t) == 1

get_stack(t) == t

AlignAs == HeaderAlign(backend)

\* The Stack of thread t as the operators take it: [len, heap, cap].
ThreadStack(t) ==
  [len |-> threads.st[get_stack(t)].len, heap |-> threads.heap, cap |-> threads.cap]

LastElem(t) == threads.st[get_stack(t)].elems[Len(threads.st[get_stack(t)].elems)]

\* What an operation that returned res leaves of the thread: a panic unwinds out
\* of the caller, undefined behaviour and a null element end the run.
AfterStackOp(res, ptr) ==
  IF res = "ub" \/ (res = "ok" /\ ptr = Null) THEN "ub" ELSE mode

StackObs(op, t, n0, n, r, optr) ==
  [NoLast EXCEPT !.op = op, !.t = t, !.n0 = n0, !.n = n, !.res = r.res,
                 !.ptr = optr, !.nptr = r.ptr,
                 !.len0 = threads.st[get_stack(t)].len, !.heap0 = threads.heap,
                 !.tp = try_push(AlignAs, threads.st[get_stack(t)].len, n),
                 !.elems0 = threads.st[get_stack(t)].elems,
                 !.pu = pop_unchecked(AlignAs, threads.st[get_stack(t)].len, n),
                 !.ha = Heap_alloc(AlignAs, ThreadStack(t), n)]

\* Thread t pushes n bytes: get_stack, then unbounded.rs Stack::push.
StackPush(t, n) ==
  /\ mode = "run"
  /\ Len(threads.st[get_stack(t)].elems) < MaxElems
  /\ \E r \in {Stack_push(AlignAs, ThreadStack(t), n)} :
       /\ threads' = IF r.res = "panic" THEN threads
                      ELSE [threads EXCEPT
                              !.st[get_stack(t)] =
                                 [len |-> r.s.len,
                                  elems |-> Append(@.elems, [ptr |-> r.ptr, n |-> n])],
                              !.heap = r.s.heap]
       /\ mode' = AfterStackOp(r.res, r.ptr)
       /\ last' = StackObs("push", t, 0, n, r, Null)
  /\ UNCHANGED <<tc, seh, call, build, shape, backend, cs, exc, STACK, recs, panic_count, tables>>

\* Thread t pops its last element: get_stack, then unbounded.rs Stack::pop.
StackPop(t) ==
  /\ mode = "run"
  /\ threads.st[get_stack(t)].elems # <<>>
  /\ \E e \in {LastElem(t)} :
     \E r \in {Stack_pop(AlignAs, ThreadStack(t), e.ptr, e.n)} :
       /\ threads' = [threads EXCEPT
                        !.st[get_stack(t)] =
                           [len |-> r.s.len,
                            elems |-> SubSeq(@.elems, 1, Len(@.elems) - 1)],
                        !.heap = r.s.heap]
       /\ mode' = AfterStackOp(r.res, e.ptr)
       /\ last' = StackObs("pop", t, e.n, 0, [res |-> r.res, ptr |-> Null], e.ptr)
  /\ UNCHANGED <<tc, seh, call, build, shape, backend, cs, exc, STACK, recs, panic_count, tables>>

\* Thread t resizes its last element to n bytes: get_stack, then unbounded.rs
\* Stack::replace_last.
StackReplaceLast(t, n) ==
  /\ mode = "run"
  /\ threads.st[get_stack(t)].elems # <<>>
  /\ \E e \in {LastElem(t)} :
     \E r \in {Stack_replace_last(AlignAs, ThreadStack(t), e.ptr, e.n, n)} :
       /\ threads' = IF r.res = "panic" THEN threads
                      ELSE [threads EXCEPT
                              !.st[get_stack(t)] =
                                 [len |-> r.s.len,
                                  elems |-> [@.elems EXCEPT ![Len(@.elems)] =
                                                              [ptr |-> r.ptr, n |-> n]]],
                              !.heap = r.s.heap]
       /\ mode' = AfterStackOp(r.res, r.ptr)
       /\ last' = StackObs("replace_last", t, e.n, n, r, e.ptr)
  /\ UNCHANGED <<tc, seh, call, build, shape, backend, cs, exc, STACK, recs, panic_count, tables>>

NextStack ==
  \/ \E t \in Threads, n \in StackSizes : StackPush(t, n)
  \/ \E t \in Threads : StackPop(t)
  \/ \E t \in Threads, n \in StackSizes : StackReplaceLast(t, n)

\* Threads that only use their stacks; the allocator can serve every element.
SpecStack ==
  /\ InitWith([depth |-> 0, types |-> {}, blocks |-> NThreads * MaxElems])
  /\ [][NextStack]_vars

\* ----------------------------------------------------------------- claims

\* Frames of running destructors that hold back a panic of the host runtime.
Suspended == Cardinality({i \in 1..Len(cs) : cs[i].k = "dtor" /\ IsHostPanic(cs[i].saved)})

\* C1: round trip.  When throw(v) is called in the callback of catch (or
\* intercept) and the frame takes it, the call returns Err(w) with w = v, for
\* every payload type, the zero-sized one included.
C1_RoundTrip ==
  (last.op = "err" /\ last.via = "throw") =>
    (last.E = last.tE /\ last.val = last.tval)

C1_Witness ==
  /\ last.op = "err" /\ last.via = "throw" /\ last.api = "catch"
  /\ last.E = "i32" /\ last.val = 2 /\ last.cleanups = <<>>

C3_RethrowDelivers ==
  (last.op = "err" /\ last.via = "rethrow") =>
    (last.E = last.tE /\ last.val = last.tval)

C3_Witness ==
  /\ last.op = "err" /\ last.via = "rethrow"
  /\ last.pE = "i32" /\ last.pval = 1 /\ last.E = "arr5000" /\ last.val = 2
  /\ backend \in ByPointer

\* C4: LIFO delivery.  Every throw is taken by the innermost catch/intercept
\* frame open at the throw: that frame returns Err, it never passes an own
\* exception on, and the frames around it go on running (their callbacks
\* return normally).
C4_LifoDelivery ==
  /\ last.op = "err" => (last.frame = last.target /\ mode = "run" /\ exc = NoExc)
  /\ last.op = "reraise" => last.origin # "lithium"

C4_Witness ==
  /\ last.op = "err" /\ last.frame = 2 /\ last.target = 2
  /\ Len(cs) = 1 /\ cs[1].k = "icpt" /\ mode = "run"

\* C5: nested raise during cleanup.  A destructor that runs while R1 unwinds
\* throws R2 and catches it itself: that catch sees R2's payload, and the
\* catch around the first throw afterwards sees R1 with its payload intact,
\* its record being the top of the exception stack again.
C5_NestedRaise ==
  /\ (last.op = "err" /\ \E i \in 1..Len(cs) : cs[i].k = "dtor" /\ cs[i].saved.origin = "lithium")
       => (last.E = last.tE /\ last.val = last.tval)
  /\ (last.op = "err" /\ last.susp = 1)
       => (last.E = last.tE /\ last.val = last.tval /\ last.top)

C5_Witness ==
  /\ last.op = "err" /\ last.susp = 1 /\ last.E = "i32" /\ last.val = 1
  /\ backend \in ByPointer

C7_PanicPassthrough ==
  /\ last.op = "err" => last.origin = "lithium"
  /\ (last.op = "reraise" /\ last.origin = "panic") =>
       /\ mode = "unwind"
       /\ exc.obj.ty = "str" /\ exc.obj.val = exc.val
       /\ exc.obj.canary = "RUST_CANARY"
  /\ (last.op = "host_err" /\ last.origin = "panic") => last.val = last.tval

C7_Witness ==
  last.op = "host_err" /\ last.origin = "panic" /\ last.crossed = 1 /\ last.val = 2

\* C8: the panic count is not incremented twice.  After a host panic has
\* passed a catch frame and was caught by std::panic::catch_unwind, the panic
\* count is what it would be without the catch frame: the number of panics
\* held back by running destructors, zero when there is none.
C8_PanicCount ==
  (last.op = "host_err" /\ last.crossed = 1) => panic_count = Suspended

C8_Witness ==
  /\ last.op = "host_err" /\ last.crossed = 1 /\ last.origin = "panic"
  /\ panic_count = 0 /\ backend = "seh"

C10_HandleOwnsTop ==
  /\ last.op \in {"drop", "rethrow", "err"} => last.top
  /\ mode # "ub"

C10_Witness ==
  /\ last.op = "drop" /\ last.top /\ backend \in ByPointer
  /\ Len(recs) = 1 /\ Len(cs) > 0 /\ Top.k = "handle"

\* C11: drop restores the stack.  After intercept caught a throw and the
\* handle is dropped without rethrow, and likewise after catch returned Err,
\* the exception stack has the occupancy, the heap blocks and the records it
\* had before the intercept (catch) call.
C11_DropRestores ==
  /\ last.op = "drop" => last.same
  /\ (last.op = "err" /\ last.api = "catch") => last.same

C11_Witness ==
  /\ last.op = "drop" /\ last.same /\ backend \in ByPointer
  /\ Len(recs) = 1 /\ recs[1].E = "arr5000" /\ STACK.heap # {}

\* C12: panic while in flight.  When a host panic unwinds out of a frame that
\* holds an in-flight handle, the handle is dropped by that unwinding and its
\* record, the top of the stack, is popped; an older Lithium exception that
\* waits beneath it is afterwards delivered to its own catch, payload intact.
C12_PanicInFlight ==
  /\ (last.op = "drop" /\ last.origin = "panic") =>
       (last.top /\ last.same /\ mode = "unwind")
  /\ (last.op = "err" /\ last.susp = 2) =>
       /\ last.E = last.tE /\ last.val = last.tval
       /\ last.top /\ last.frame = last.target

C12_Witness ==
  /\ last.op = "err" /\ last.susp = 2 /\ last.api = "catch"
  /\ last.val = 2 /\ backend \in ByPointer /\ recs = <<>>

\* C13: when the old and the new element have the same size, replace_last
\* returns the address of the old element, the set of heap blocks is the one
\* before the call and the inline occupancy is the one before the call, for an
\* element in the inline buffer and for one on the heap.
C13_SameSizeKeepsSlot ==
  (last.op = "replace_last" /\ last.res = "ok" /\ last.n0 = last.n) =>
     /\ last.nptr = last.ptr
     /\ threads.heap = last.heap0
     /\ threads.st[last.t].len = last.len0
     /\ LastElem(last.t) = [ptr |-> last.ptr, n |-> last.n]

\* A heap element of thread 2 is replaced by one of its size while thread 1 holds
\* half of its buffer.
C13_Witness ==
  /\ last.op = "replace_last" /\ last.res = "ok" /\ last.t = 2
  /\ last.n0 = CAPACITY + 16 /\ last.n = CAPACITY + 16
  /\ last.ptr \in threads.heap /\ last.nptr = last.ptr
  /\ threads.st[1].len = CAPACITY \div 2

\* C14 as stated: a rethrow through a by-pointer backend leaves the record at
\* its address and leaves the set of heap blocks as it was, whatever the new
\* payload type.
C14_Original ==
  (last.op = "rethrow" /\ last.res = "ok" /\ backend \in ByPointer) =>
     /\ recs[Len(recs)].ptr = last.ptr
     /\ STACK.heap = last.heap0

\* C14, amended: a rethrow through a by-pointer backend replaces the top record
\* with replace_last and raises again.  A record of the same size stays where
\* it is and the heap is untouched.  A record of another size replaces an
\* inline record in place without heap traffic when it fits in the inline
\* buffer, and takes a fresh heap block when it does not; an old record on the
\* heap has its block freed, and the new record goes inline or to a heap block.
C14_RethrowStorage ==
  (last.op = "rethrow" /\ last.res = "ok" /\ backend \in ByPointer) =>
     LET n0 == get_alloc_size(backend, last.E)
         n == get_alloc_size(backend, last.tE)
         new == recs[Len(recs)]
         inline0 == last.ptr \notin last.heap0
         fits == (IF inline0 THEN last.len0 - n0 ELSE last.len0) + n <= CAPACITY
     IN /\ new.E = last.tE /\ new.n = n
        /\ n = n0 =>
              new.ptr = last.ptr /\ STACK.heap = last.heap0 /\ STACK.len = last.len0
        /\ (inline0 /\ fits) =>
              /\ STACK.heap = last.heap0
              /\ STACK.len = last.len0 - n0 + n
              /\ (n0 > 0 /\ n > 0) => new.ptr = last.ptr
        /\ (inline0 /\ ~fits) =>
              /\ new.ptr \notin last.heap0
              /\ STACK.heap = last.heap0 \cup {new.ptr}
              /\ STACK.len = last.len0 - n0
        /\ (~inline0 /\ n # n0 /\ fits) =>
              /\ STACK.heap = last.heap0 \ {last.ptr}
              /\ new.ptr = (IF n = 0 THEN dangling_mut(HeaderAlign(backend))
                            ELSE DataAddr + last.len0)
              /\ STACK.len = last.len0 + n
        /\ (~inline0 /\ n # n0 /\ ~fits) =>
              /\ STACK.heap = (last.heap0 \ {last.ptr}) \cup {new.ptr}
              /\ STACK.len = last.len0

\* An inline i32 record is rethrown as a 5000-byte array: the record moves to a
\* heap block that was not allocated before.
C14_Witness ==
  /\ last.op = "rethrow" /\ last.res = "ok" /\ backend = "itanium"
  /\ last.E = "i32" /\ last.tE = "arr5000"
  /\ last.heap0 = {} /\ recs[Len(recs)].ptr \in STACK.heap
  /\ recs[Len(recs)].ptr # last.ptr

\* C15: when a foreign catch block has taken a Lithium exception and the native
\* runtime calls the destructor the backend installed on it (Itanium cleanup,
\* Emscripten cleanup, SEH cleanup on an object not marked caught), the process
\* is terminated inside the callback: the catch block never completes and the
\* exception stack is not touched again.
C15_CleanupAborts ==
  (/\ last.op = "ffi_err" /\ last.origin = "lithium"
   /\ backend \in {"itanium", "emscripten", "seh"}) =>
     /\ last.res = "abort"
     /\ mode = "abort"
     /\ Len(cs) = last.frame /\ Top.k = "ffi"
     /\ ~ENABLED NextEscape

\* An SEH exception thrown by Lithium below a foreign catch block, past a local
\* whose destructor has run, is destroyed by the C++ runtime: the process is gone.
C15_Witness ==
  /\ last.op = "ffi_err" /\ last.origin = "lithium" /\ backend = "seh"
  /\ mode = "abort" /\ ~last.obj.caught /\ Len(last.ran) = 1

\* C16: when a throw needs a heap block for its record and the allocator has
\* none left, the process aborts; the throw path never gets a null pointer to
\* write the record through.
C16_OomAborts ==
  (/\ last.op = "throw" /\ backend \in ByPointer
   /\ get_alloc_size(backend, last.E) > CAPACITY - last.len0
   /\ Cardinality(last.heap0) = STACK.cap) =>
     /\ mode = "abort"
     /\ Null \notin {recs[i].ptr : i \in 1..Len(recs)}

\* C17: every thread has an exception stack of its own: whatever the threads
\* do in whatever order, a push (throw), a pop (catch, handle drop) or a
\* replace_last (rethrow) by one thread leaves the occupancy and the elements
\* of every other thread's stack as they were.
C17_ThreadIsolation ==
  [][\A u \in Threads :
        u # last'.t => threads'.st[u] = threads.st[u]]_vars

\* Thread 2 has pushed and popped while thread 1 holds an inline element and a
\* heap element: thread 1 still has both.
C17_Witness ==
  /\ last.op = "pop" /\ last.t = 2 /\ last.res = "ok" /\ last.ptr \in last.heap0
  /\ threads.st[2].elems = <<>>
  /\ Len(threads.st[1].elems) = 2
  /\ threads.st[1].len = CAPACITY
  /\ threads.st[1].elems[2].ptr \in threads.heap

\* C18: on a toolchain that is not nightly, with neither LITHIUM_BACKEND nor
\* LITHIUM_THREAD_LOCAL set, build.rs emits backend "panic", thread_local "std"
\* and abort "std", whatever the target configuration, the profile, Miri or the
\* outcome of the std probe.
C18_StableUsesPanic ==
  (/\ build.done /\ ~build.in.is_nightly
   /\ build.in.LITHIUM_BACKEND = Unset /\ build.in.LITHIUM_THREAD_LOCAL = Unset) =>
     /\ build.out.backend = "panic"
     /\ build.out.thread_local = "std"
     /\ build.out.abort = "std"
     /\ backend = "panic"

\* A stable build for wasm32 emscripten without Wasm EH, release profile, thread
\* locals available, the std probe failing.
C18_Witness ==
  /\ build.done /\ ~build.in.is_nightly
  /\ build.in.LITHIUM_BACKEND = Unset /\ build.in.LITHIUM_THREAD_LOCAL = Unset
  /\ build.in.target_os = "emscripten" /\ ~build.in.emscripten_wasm_eh
  /\ build.in.target_arch = "wasm32" /\ build.in.PROFILE = "release"
  /\ build.in.target_thread_local /\ ~build.in.probe
  /\ build.out.backend = "panic" /\ build.out.abort = "std"

\* C19: for n > 0 a multiple of the alignment, try_push(n) on a buffer that
\* holds len bytes succeeds exactly when CAPACITY - len >= n; on success it
\* returns data + len and the buffer holds len + n bytes; on failure it returns
\* none and the buffer holds len bytes as before.
C19_TryPush ==
  (last.op = "push" /\ last.n > 0 /\ last.n % AlignAs = 0) =>
     /\ last.tp.res \in {"some", "none"}
     /\ last.tp.res = "some" <=> CAPACITY - last.len0 >= last.n
     /\ last.tp.res = "some" =>
           /\ last.tp.ptr = DataAddr + last.len0
           /\ last.tp.len = last.len0 + last.n
           /\ last.nptr = last.tp.ptr
           /\ threads.st[last.t].len = last.len0 + last.n
     /\ last.tp.res = "none" =>
           /\ last.tp.len = last.len0
           /\ threads.st[last.t].len = last.len0

\* The second half of the buffer is pushed: the buffer is full to the last byte.
C19_Witness ==
  /\ last.op = "push" /\ last.n = CAPACITY \div 2 /\ last.len0 = CAPACITY \div 2
  /\ last.tp.res = "some" /\ last.nptr = DataAddr + CAPACITY \div 2
  /\ threads.st[last.t].len = CAPACITY

\* C20: a push of zero bytes succeeds in every state, a full inline buffer
\* included: try_push(0) and push(0) return the same non-null pointer, aligned
\* for the stack, and the inline occupancy and the heap are as before.  A pop
\* of a zero-size element changes neither the occupancy nor the heap: it is
\* not handed to the heap.
C20_ZeroSize ==
  /\ (last.op = "push" /\ last.n = 0) =>
        /\ last.res = "ok" /\ last.tp.res = "some"
        /\ last.nptr = last.tp.ptr
        /\ last.nptr # Null /\ last.nptr % AlignAs = 0
        /\ threads.st[last.t].len = last.len0
        /\ threads.heap = last.heap0
  /\ (last.op = "pop" /\ last.n0 = 0) =>
        /\ last.res = "ok" /\ mode = "run"
        /\ threads.st[last.t].len = last.len0
        /\ threads.heap = last.heap0

\* A zero-size element pushed on a full buffer, on top of a heap element, has
\* been popped again.
C20_Witness ==
  /\ last.op = "pop" /\ last.n0 = 0 /\ last.res = "ok"
  /\ last.len0 = CAPACITY /\ last.heap0 # {}
  /\ last.ptr = dangling_mut(AlignAs)
  /\ Len(threads.st[last.t].elems) = 1

\* C21: in every state the threads reach by pushes, pops of the top element and
\* replacements of the top element, the live inline elements of a stack lie
\* one after the other from the start of the buffer: each begins where the one
\* before it ends, the last ends at len; so len is the sum of their sizes, a
\* multiple of the alignment and at most CAPACITY.
C21_InlineTiling ==
  \A t \in Threads :
    LET el == threads.st[t].elems
        inl(e) == e.n > 0 /\ e.ptr \notin threads.heap
        off[i \in 0..Len(el)] ==
          IF i = 0 THEN 0
          ELSE off[i - 1] + (IF inl(el[i]) THEN el[i].n ELSE 0)
    IN /\ \A i \in 1..Len(el) : inl(el[i]) => el[i].ptr = DataAddr + off[i - 1]
       /\ threads.st[t].len = off[Len(el)]
       /\ threads.st[t].len % AlignAs = 0
       /\ threads.st[t].len <= CAPACITY

\* A thread holds two inline elements that fill the buffer, the upper one made
\* by a replacement of a heap element.
C21_Witness ==
  /\ last.op = "replace_last" /\ last.res = "ok" /\ last.ptr \in last.heap0
  /\ Len(threads.st[last.t].elems) = 2
  /\ threads.st[last.t].elems[1] = [ptr |-> DataAddr, n |-> CAPACITY \div 2]
  /\ threads.st[last.t].elems[2] =
        [ptr |-> DataAddr + CAPACITY \div 2, n |-> CAPACITY \div 2]
  /\ threads.st[last.t].len = CAPACITY

\* C22: a size that is not a multiple of the alignment makes try_push,
\* pop_unchecked, push and replace_last panic, and Heap::alloc panics for such
\* a size and for size 0; after the panic the inline occupancy, the elements
\* and the heap blocks are what they were before the call.  No other size
\* makes push or replace_last panic.
C22_MisalignedRejected ==
  (last.op \in {"push", "replace_last"}) =>
     /\ last.n % AlignAs # 0 =>
           /\ last.res = "panic"
           /\ last.tp.res = "panic" /\ last.tp.len = last.len0
           /\ last.pu.res = "panic" /\ last.pu.len = last.len0
           /\ last.ha.res = "panic" /\ last.ha.heap = last.heap0
     /\ last.n = 0 => (last.ha.res = "panic" /\ last.ha.heap = last.heap0)
     /\ last.res = "panic" =>
           /\ last.n % AlignAs # 0
           /\ threads.st[last.t].len = last.len0
           /\ threads.st[last.t].elems = last.elems0
           /\ threads.heap = last.heap0
           /\ mode = "run"

\* A heap element above an inline one is to be replaced by 8 bytes on a stack
\* aligned to 16: the call panics and both elements are still there.
C22_Witness ==
  /\ last.op = "replace_last" /\ last.n = 8 /\ AlignAs = 16 /\ last.res = "panic"
  /\ last.ptr \in threads.heap /\ last.len0 = CAPACITY \div 2
  /\ Len(threads.st[last.t].elems) = 2

\* C23: no step of the program changes a record below the top of the
\* exception stack: a throw (push) leaves every record where it is and as it
\* is, a handle drop (pop), a rethrow (replace_last) and a catch leave every
\* record but the top one so: address, size, header and cause, in the inline
\* buffer and on the heap.
C23_StableBelowTop ==
  [][\A i \in 1..Len(recs) :
        (i < Len(recs) \/ Len(recs') > Len(recs)) =>
           (i <= Len(recs') /\ recs'[i] = recs[i])]_vars

\* A 5000-byte record on the heap lies below an inline record that has just
\* been rethrown with another type.
C23_Witness ==
  /\ last.op = "rethrow" /\ last.res = "ok" /\ backend = "emscripten"
  /\ last.E = "i32" /\ last.tE = "arr3000"
  /\ Len(recs) = 2
  /\ recs[1].E = "arr5000" /\ recs[1].ptr \in STACK.heap /\ recs[1].cause = 2
  /\ recs[2].ptr = DataAddr

\* C24: for n > 0 contains_allocated(ptr, n) is true for the pointer of every
\* live element that try_push(n) placed in the buffer, one that ends at
\* CAPACITY included, and false for every pointer whose n bytes lie outside
\* the buffer: allocated heap blocks, null, foreign addresses, the bytes next
\* to either end of the buffer, and every pointer when n > CAPACITY.  For
\* n = 0 it is true for every pointer.
C24_ContainsAllocated ==
  LET Outside(n) == {Null, ForeignAddr, DataAddr + CAPACITY, DataAddr - n,
                     AddrSpace - n} \cup threads.heap
      Ptrs == UNION {{threads.st[t].elems[i].ptr : i \in 1..Len(threads.st[t].elems)} :
                       t \in Threads} \cup Outside(AlignAs)
  IN
  /\ \A t \in Threads : \A i \in 1..Len(threads.st[t].elems) :
        LET e == threads.st[t].elems[i] IN
        e.n > 0 => (contains_allocated(e.ptr, e.n) <=> e.ptr \notin threads.heap)
  /\ (last.op = "push" /\ last.tp.res = "some" /\ last.n > 0) =>
        contains_allocated(last.tp.ptr, last.n)
  /\ \A n \in StackSizes \ {0} : \A p \in Outside(n) : ~contains_allocated(p, n)
  /\ \A n \in {m \in StackSizes : m > CAPACITY} :
        \A p \in Ptrs \cup {DataAddr} : ~contains_allocated(p, n)
  /\ \A p \in Ptrs \cup {DataAddr} : contains_allocated(p, 0)

\* An element that fills the buffer to CAPACITY has been pushed while a heap
\* block below the buffer and one above it are allocated.
C24_Witness ==
  /\ last.op = "push" /\ last.n = CAPACITY /\ last.tp.res = "some"
  /\ last.tp.ptr = DataAddr
  /\ \E p \in threads.heap : p < DataAddr
  /\ \E p \in threads.heap : p > DataAddr + CAPACITY

\* C25: push(n) places the element inline exactly when n = 0 or the inline
\* buffer has n free bytes: then no heap block is allocated and an element of
\* nonzero size starts at data + len and raises len by n.  Otherwise the
\* element gets a heap block that was free and len stays.  So in a state where
\* an oversized element has come and gone, a small push goes inline without
\* touching the heap.
C25_PushRouting ==
  (last.op = "push" /\ last.res = "ok") =>
     LET fits == last.n = 0 \/ CAPACITY - last.len0 >= last.n IN
     /\ fits =>
           /\ last.nptr \notin threads.heap
           /\ threads.heap = last.heap0
           /\ threads.st[last.t].len = last.len0 + last.n
           /\ last.n > 0 => last.nptr = DataAddr + last.len0
     /\ ~fits =>
           /\ last.nptr \notin last.heap0
           /\ threads.heap = last.heap0 \cup {last.nptr}
           /\ threads.st[last.t].len = last.len0
           /\ ~contains_allocated(last.nptr, last.n)

\* No heap block is allocated any more and the buffer of the thread is empty;
\* 8 bytes are pushed: they are at the start of the buffer and the heap is
\* still empty.
C25_Witness ==
  /\ last.op = "push" /\ last.res = "ok" /\ last.n = 8
  /\ last.len0 = 0 /\ last.heap0 = {} /\ threads.heap = {}
  /\ last.nptr = DataAddr /\ threads.st[last.t].len = 8
  /\ \A u \in Threads \ {last.t} : threads.st[u].elems = <<>>

\* C26: a pop of the top element succeeds and returns the element to where it
\* was placed: for an inline element (or one of size 0) len goes down by its
\* size and the heap blocks stay; for a heap element its block is freed and
\* len stays.  The allocated heap blocks are exactly the blocks of the live
\* heap elements, and a stack without elements has len 0; so when every stack
\* is empty no heap block is allocated.
C26_PopRouting ==
  /\ (last.op = "pop") =>
        /\ last.res = "ok"
        /\ threads.st[last.t].elems = SubSeq(last.elems0, 1, Len(last.elems0) - 1)
        /\ IF last.ptr \in last.heap0
           THEN /\ threads.heap = last.heap0 \ {last.ptr}
                /\ threads.st[last.t].len = last.len0
           ELSE /\ threads.heap = last.heap0
                /\ threads.st[last.t].len = last.len0 - last.n0
  /\ \A t \in Threads : threads.st[t].elems = <<>> => threads.st[t].len = 0
  /\ threads.heap =
       {p \in UNION {{threads.st[t].elems[i].ptr :
                        i \in 1..Len(threads.st[t].elems)} : t \in Threads} :
          /\ p < DataAddr \/ p > DataAddr + CAPACITY
          /\ p # dangling_mut(AlignAs)}

\* A small element placed inline above an element that spilled to the heap is
\* popped: len goes back to 0 and the block of the lower element is still
\* allocated.
C26_Witness ==
  /\ last.op = "pop" /\ last.res = "ok" /\ last.n0 = 8 /\ last.ptr = DataAddr
  /\ last.len0 = 8 /\ threads.st[last.t].len = 0
  /\ Len(threads.st[last.t].elems) = 1
  /\ threads.st[last.t].elems[1].n = CAPACITY + 16
  /\ threads.st[last.t].elems[1].ptr \in threads.heap

\* C27: a replace_last(ptr, old_n, new_n) with old_n # new_n, new_n aligned,
\* ends as pop(ptr, old_n) followed by push(new_n) does: same result, the new
\* element inline or on the heap alike, the same address, the same inline
\* occupancy and the same heap blocks.  An inline element of nonzero size
\* resized to a nonzero size that fits keeps its address.
C27_ReplaceRefinesPopPush ==
  (last.op = "replace_last" /\ last.res # "panic" /\ last.n0 # last.n) =>
     \E p \in {Stack_pop(AlignAs, [len |-> last.len0, heap |-> last.heap0,
                                    cap |-> threads.cap], last.ptr, last.n0)} :
     \E q \in {Stack_push(AlignAs, p.s, last.n)} :
        /\ p.res = "ok"
        /\ last.res = q.res
        /\ (last.nptr \in threads.heap) <=> (q.ptr \in q.s.heap)
        /\ last.nptr = q.ptr
        /\ threads.st[last.t].len = q.s.len
        /\ threads.heap = q.s.heap
        /\ (/\ last.n0 > 0 /\ last.n > 0 /\ last.ptr \notin last.heap0
            /\ last.len0 - last.n0 + last.n <= CAPACITY) => last.nptr = last.ptr

\* A heap element above half a buffer of inline data is shrunk to 8 bytes: the
\* new element is inline, right after the data, and the block is freed.
C27_Witness ==
  /\ last.op = "replace_last" /\ last.res = "ok"
  /\ last.n0 = CAPACITY /\ last.n = 8 /\ last.ptr \in last.heap0
  /\ last.len0 = CAPACITY \div 2
  /\ last.nptr = DataAddr + CAPACITY \div 2
  /\ last.ptr \notin threads.heap

\* C28: in every state reached by pushes and by pops and replacements of the
\* top element, each live element on the heap is larger than the free part of
\* the inline buffer of its stack, CAPACITY - len.  So when a heap element on
\* top is replaced by a larger one, the new one does not fit inline either,
\* and it is on the heap.
C28_HeapNeverFits ==
  /\ \A t \in Threads : \A i \in 1..Len(threads.st[t].elems) :
        threads.st[t].elems[i].ptr \in threads.heap =>
           threads.st[t].elems[i].n > CAPACITY - threads.st[t].len
  /\ (/\ last.op = "replace_last" /\ last.res = "ok"
      /\ last.ptr \in last.heap0 /\ last.n > last.n0) =>
        /\ last.n > CAPACITY - last.len0
        /\ last.tp.res = "none"
        /\ last.nptr \in threads.heap

\* A whole-buffer element on the heap, above half a buffer of inline data, has
\* been replaced by a larger one.
C28_Witness ==
  /\ last.op = "replace_last" /\ last.res = "ok"
  /\ last.n0 = CAPACITY /\ last.n = CAPACITY + 16
  /\ last.ptr \in last.heap0 /\ last.len0 = CAPACITY \div 2
  /\ last.nptr \in threads.heap /\ threads.st[last.t].len = CAPACITY \div 2

\* C29: in one call of intrinsic::intercept the try function is called exactly
\* once.  When it unwinds the catch callback is called exactly once, the Err
\* slot is written and Err with the callback's result is returned.  When it
\* returns the catch callback is dropped without being called, the Ok slot is
\* written and Ok with the returned value is returned.  Never are both slots
\* written, and no slot is written twice.
C29_CatchAdapter ==
  /\ call.func_calls = (IF call.pc = "start" THEN 0 ELSE 1)
  /\ call.catch_calls <= 1 /\ call.ok_writes + call.err_writes <= 1
  /\ call.catch_calls = 1 => (call.func.kind = "unwinds" /\ ~call.catch_dropped)
  /\ call.catch_dropped => (call.func.kind = "returns" /\ call.catch_calls = 0)
  /\ call.pc = "done" =>
        /\ call.ok_writes + call.err_writes = 1
        /\ call.ret.variant = "Ok" <=> call.func.kind = "returns"
        /\ call.ret.variant = "Err" <=> call.func.kind = "unwinds"
        /\ call.func.kind = "returns" =>
              /\ call.ok_writes = 1 /\ call.catch_dropped /\ call.catch_calls = 0
              /\ call.ret.val = call.func.val /\ ~call.ret.handler
        /\ call.func.kind = "unwinds" =>
              /\ call.err_writes = 1 /\ call.catch_calls = 1
              /\ call.ret.handler
              /\ call.ret.val = (IF call.catch = "same" THEN call.func.val
                                 ELSE wrapping_sub(call.func.val, 1))

\* The try function unwound with a tagged pointer, the callback took the tag
\* off: intercept has returned Err with the untagged pointer.
C29_Witness ==
  /\ call.pc = "done" /\ call.func = [kind |-> "unwinds", val |-> DataAddr + 1]
  /\ call.catch = "untag" /\ call.ret.variant = "Err" /\ call.ret.val = DataAddr
  /\ call.catch_calls = 1 /\ call.err_writes = 1 /\ call.ok_writes = 0

\* C30: when the catch callback unwinds, and when the destructor of the catch
\* callback unwinds after the try function returned, the process aborts and
\* intercept does not return.  The process aborts in no other case: when the
\* try function unwinds nothing aborts, the catch callback is what runs
\* next, and it is called.
C30_NoUnwindLeavesHandler ==
  /\ call.catch = "unwinds" => (mode = "abort" /\ call.pc = "abort")
  /\ call.drop = "unwinds" =>
        (mode = "abort" /\ call.pc = "abort" /\ call.dropper = "ran")
  /\ mode = "abort" => (call.catch = "unwinds" \/ call.drop = "unwinds")
  /\ call.pc = "abort" => (call.ret.variant = "" /\ ~ENABLED NextIntercept)
  /\ call.pc = "unwinding" => (mode = "run" /\ ENABLED DoCatch /\ ~ENABLED DoCallReturn)
  /\ (call.func.kind = "unwinds" /\ call.pc # "unwinding") => call.catch_calls = 1
  /\ call.pc \in {"start", "returned", "unwinding", "done", "abort"}

\* The try function returned, the destructor of the catch callback unwound:
\* the Dropper ran and the process is gone, with no slot written.
C30_Witness ==
  /\ call.pc = "abort" /\ mode = "abort" /\ call.func.kind = "returns"
  /\ call.drop = "unwinds" /\ call.dropper = "ran"
  /\ call.ok_writes = 0 /\ call.catch_calls = 0

\* C31: the cause of a record is moved out exactly once, by the intercept that
\* catches the exception.  A record whose exception is in flight has been read
\* zero times, a record owned by a handle exactly once, and each record is
\* owned by at most one handle; the intercept that returns Err has read the
\* record once and returns the cause that was thrown, and nothing is in
\* flight any more; a handle that is dropped or rethrown releases a record
\* that has been read once, and the record written by rethrow is unread.
C31_PayloadMovedOnce ==
  /\ (backend \in ByPointer /\ mode \in {"run", "unwind"}) =>
        /\ \A i \in 1..Len(recs) :
              recs[i].reads =
                Cardinality({j \in 1..Len(cs) :
                               cs[j].k = "handle" /\ cs[j].id = recs[i].id})
        /\ \A i \in 1..Len(recs) : recs[i].reads <= 1
        /\ last.op = "err" => last.reads = 1
        /\ last.op \in {"drop", "rethrow"} => last.reads = 1
        /\ last.op = "rethrow" => recs[Len(recs)].reads = 0
  /\ (last.op = "err" /\ mode = "run") =>
        /\ last.val = last.tval /\ last.E = last.tE
        /\ exc = NoExc

\* A record has been caught, rethrown with another value and caught again by
\* the outer intercept: the second record has been read once, by that catch.
C31_Witness ==
  /\ backend = "itanium" /\ mode = "run"
  /\ last.op = "err" /\ last.via = "rethrow" /\ last.api = "intercept"
  /\ last.E = "i32" /\ last.val = 2 /\ last.pval = 1 /\ last.reads = 1
  /\ Len(recs) = 1 /\ recs[1].reads = 1 /\ recs[1].cause = 2
  /\ Len(cs) = 1 /\ cs[1].k = "handle"

\* C32: rethrow consumes the handle and replaces its record: it succeeds, the
\* old record is gone, no handle for it is left, one new record is on top and
\* the stack holds as many records as before the call.  When catch takes the
\* re-raised exception and drops its handle, the exception stack (length,
\* heap blocks, records) is what it was when that catch was entered, before
\* the original throw.
C32_RethrowConserves ==
  /\ (last.op = "rethrow" /\ backend \in ByPointer) =>
        /\ last.res = "ok" /\ last.top
        /\ Len(recs) = last.n
        /\ \A j \in 1..Len(cs) :
              cs[j].k = "handle" => cs[j].id # recs[Len(recs)].id
        /\ recs[Len(recs)].E = last.tE /\ recs[Len(recs)].reads = 0
        /\ Cardinality({recs[i].id : i \in 1..Len(recs)}) = Len(recs)
  /\ (last.op = "err" /\ last.via = "rethrow" /\ last.api = "catch") => last.same

\* Two records are live, the upper one has just been rethrown with a payload
\* of another size: there are still two.
C32_Witness ==
  /\ last.op = "rethrow" /\ last.res = "ok" /\ backend = "wasm"
  /\ last.E = "i32" /\ last.tE = "arr3000" /\ last.n = 2 /\ Len(recs) = 2
  /\ mode = "unwind"

\* C33: with the Itanium backend throw raises the header pointer of the record
\* it pushed, whose class word is the Lithium class.  An intercept that is
\* reached by an exception thrown by Lithium returns Err with the pointer the
\* unwinder carried, which is the record on top of the stack, and raises
\* nothing; reached by any other exception (a host panic, a foreign
\* exception: another class word) it raises the same pointer and the same
\* object again, its frame is left, and no handle for that pointer exists.
C33_ItaniumDiscrimination ==
  backend = "itanium" =>
    /\ (last.op = "throw" /\ mode = "unwind") =>
          /\ exc.raw = Exception_header(recs[Len(recs)].ptr)
          /\ recs[Len(recs)].hdr.class = LITHIUM_EXCEPTION_CLASS
    /\ (last.op \in {"err", "reraise", "abort"} /\ last.origin # "none") =>
          /\ last.op = "err" <=> last.origin = "lithium"
          /\ last.op = "reraise" <=> last.origin # "lithium"
    /\ last.op = "err" =>
          /\ last.ptr = last.raw /\ last.top
          /\ last.obj.class # "MOZRUST" /\ last.obj.class # "GNUCC++"
          /\ exc = NoExc /\ mode = "run"
    /\ last.op = "reraise" =>
          /\ last.obj.class \in {"MOZRUST", "GNUCC++"}
          /\ mode = "unwind" /\ exc.raw = last.raw /\ exc.obj = last.obj
          /\ last.intact /\ Len(cs) = last.frame - 1
          /\ \A j \in 1..Len(cs) : cs[j].k = "handle" => cs[j].ex # last.raw

\* A host panic passes an Itanium intercept while a caught Lithium record is
\* live: it is raised again with the pointer it came with.
C33_Witness ==
  /\ backend = "itanium" /\ last.op = "reraise" /\ last.origin = "panic"
  /\ last.raw = ForeignAddr /\ exc.raw = ForeignAddr /\ mode = "unwind"
  /\ last.obj.class = "MOZRUST"
  /\ Len(recs) = 1 /\ recs[1].hdr.class = LITHIUM_EXCEPTION_CLASS

\* C34: with the Wasm backend the record that throw or rethrow has written
\* lies at an even address (the dangling pointer of a zero-size record
\* included) and the pointer raised is that address plus 1.  An intercept
\* reached by a pointer with the low bit set returns Err with the pointer
\* minus 1, the address of the record on top of the stack, and raises
\* nothing; reached by a pointer with the low bit clear it raises the same
\* pointer again, returns nothing, and no handle holds that pointer.
C34_WasmLowBit ==
  backend = "wasm" =>
    /\ (last.op \in {"throw", "rethrow"} /\ mode = "unwind") =>
          /\ Exception_header(recs[Len(recs)].ptr) % 2 = 0
          /\ exc.raw = Exception_header(recs[Len(recs)].ptr) + 1
          /\ recs[Len(recs)].n = 0 =>
                recs[Len(recs)].ptr = dangling_mut(HeaderAlign("wasm"))
    /\ (last.op \in {"err", "reraise", "abort"} /\ last.origin # "none") =>
          /\ last.op = "err" <=> last.raw % 2 = 1
          /\ last.op = "reraise" <=> last.raw % 2 = 0
    /\ last.op = "err" =>
          /\ Exception_header(last.ptr) = last.raw - 1 /\ last.top
          /\ last.origin = "lithium"
          /\ exc = NoExc /\ mode = "run"
    /\ last.op = "reraise" =>
          /\ mode = "unwind" /\ exc.raw = last.raw /\ exc.obj = last.obj
          /\ last.origin # "lithium" /\ Len(cs) = last.frame - 1
          /\ \A j \in 1..Len(cs) : cs[j].k = "handle" => cs[j].ex # last.raw

\* A unit payload makes a zero-size record at the dangling pointer 2: the
\* pointer raised was 3 and intercept has returned 2.
C34_Witness ==
  /\ backend = "wasm" /\ last.op = "err" /\ last.E = "unit" /\ last.api = "intercept"
  /\ last.raw = 3 /\ last.ptr = 2 /\ Len(recs) = 1 /\ recs[1].n = 0
  /\ recs[1].ptr = 2

\* C35: with the panic backend throw and rethrow raise a panic whose payload
\* has the dynamic type LithiumMarker and the address of the record's header.
\* An intercept returns Err exactly when the payload it caught is a
\* LithiumMarker, with the address the payload carried, which is the record on
\* top of the stack; a payload of any other type is raised again with
\* resume_unwind, same address and same object, the panic count is what it
\* was before the intercept took it, and no handle holds that address.
C35_PanicDiscrimination ==
  backend = "panic" =>
    /\ (last.op \in {"throw", "rethrow"} /\ mode = "unwind") =>
          /\ exc.obj.ty = "LithiumMarker"
          /\ exc.raw = Exception_header(recs[Len(recs)].ptr)
    /\ (last.op \in {"err", "reraise", "abort"} /\ last.origin # "none") =>
          /\ last.op = "err" <=> last.obj.ty = "LithiumMarker"
          /\ last.op = "reraise" <=> last.obj.ty # "LithiumMarker"
    /\ last.op = "err" =>
          /\ Exception_header(last.ptr) = last.raw /\ last.top
          /\ last.origin = "lithium"
          /\ exc = NoExc /\ mode = "run"
    /\ last.op = "reraise" =>
          /\ mode = "unwind" /\ exc.raw = last.raw /\ exc.obj = last.obj
          /\ last.intact /\ last.origin = "panic" /\ last.obj.ty = "str"
          /\ exc.obj.val = last.tval
          /\ panic_count = last.pc /\ panic_count >= 1
          /\ Len(cs) = last.frame - 1
          /\ \A j \in 1..Len(cs) : cs[j].k = "handle" => cs[j].ex # last.raw

\* A 3000-byte payload thrown through the panic backend has been caught: the
\* box carried the address of the record, the first byte of the buffer.
C35_Witness ==
  /\ backend = "panic" /\ last.op = "err" /\ last.E = "arr3000"
  /\ last.obj.ty = "LithiumMarker" /\ last.raw = DataAddr /\ last.ptr = DataAddr
  /\ last.api = "intercept" /\ Len(recs) = 1 /\ recs[1].ptr = DataAddr

\* C36: with the Emscripten backend throw hands the end of the record's header
\* and TYPE_INFO to __cxa_throw, with a reference count of 0.  An intercept
\* reached by such an exception calls __cxa_begin_catch once, then sets the
\* reference count to 2, then calls __cxa_end_catch once; the count is 1
\* afterwards, so the record was not destroyed, and Err with the header is
\* returned.  Reached by any other exception it calls __cxa_begin_catch once
\* and then __cxa_rethrow, writes no reference count, does not call
\* __cxa_end_catch, and the same exception is in flight again.
C36_EmscriptenCatchOrder ==
  backend = "emscripten" =>
    /\ (last.op \in {"throw", "rethrow"} /\ mode = "unwind") =>
          /\ exc.raw = recs[Len(recs)].ptr + HeaderSize(backend)
          /\ recs[Len(recs)].hdr.exception_type = TYPE_INFO
          /\ recs[Len(recs)].hdr.reference_count = 0
    /\ (last.op \in {"err", "reraise", "abort"} /\ last.origin # "none") =>
          /\ last.op = "err" <=> last.origin = "lithium"
          /\ last.op = "reraise" <=> last.origin # "lithium"
          /\ Cardinality({i \in 1..Len(last.log) : last.log[i] = "__cxa_begin_catch"}) = 1
          /\ last.log[1] = "__cxa_begin_catch"
    /\ last.op = "err" =>
          /\ last.log = <<"__cxa_begin_catch", "reference_count = 2", "__cxa_end_catch">>
          /\ last.rc0 = 0
          /\ last.ptr = last.raw - HeaderSize(backend) /\ last.top
          /\ last.api = "intercept" =>
                /\ recs[Len(recs)].ptr = last.ptr
                /\ recs[Len(recs)].hdr.reference_count = 1
                /\ recs[Len(recs)].E = last.tE /\ recs[Len(recs)].cause = last.tval
          /\ exc = NoExc /\ mode = "run"
    /\ last.op = "reraise" =>
          /\ last.log = <<"__cxa_begin_catch", "__cxa_rethrow">>
          /\ mode = "unwind" /\ exc.raw = last.raw /\ exc.obj = last.obj
          /\ last.obj.tinfo # TYPE_INFO
          /\ \A i \in 1..Len(recs) :
                recs[i].hdr.reference_count =
                  (IF \E j \in 1..Len(cs) : cs[j].k = "handle" /\ cs[j].id = recs[i].id
                   THEN 1 ELSE 0)

\* A 5000-byte record on the heap has been caught through Emscripten: it is
\* still there with its cause, with a reference count of 1.
C36_Witness ==
  /\ backend = "emscripten" /\ last.op = "err" /\ last.api = "intercept"
  /\ last.E = "arr5000" /\ last.val = 2
  /\ last.log = <<"__cxa_begin_catch", "reference_count = 2", "__cxa_end_catch">>
  /\ Len(recs) = 1 /\ recs[1].ptr \in STACK.heap /\ recs[1].cause = 2
  /\ recs[1].hdr.reference_count = 1

\* C37 as stated: with the SEH backend every invocation of the destructor
\* entry and every invocation of the copy entry ends the process.
C37_Original ==
  backend = "seh" =>
    /\ (last.op = "ffi_err" /\ last.origin = "lithium") => mode = "abort"
    /\ (\E i \in 1..Len(last.log) : last.log[i] = "cleanup") => mode = "abort"

\* C37, amended: with the SEH backend the copy entry ends the process on
\* every invocation; the destructor entry ends it when the object is not
\* marked caught, which is the case when a foreign catch block took the
\* exception, and returns when Lithium's intercept has marked it.
C37_SehEntries ==
  backend = "seh" =>
    /\ (last.op = "ffi_err" /\ last.origin = "lithium") =>
          /\ tables = FilledTables
          /\ ~last.obj.caught
          /\ last.res = "abort" /\ mode = "abort"
          /\ Len(cs) = last.frame /\ ~ENABLED NextEscape
    /\ (\E i \in 1..Len(last.log) : last.log[i] = "cleanup") =>
          /\ last.op \in {"err", "abort"}
          /\ last.op = "abort" <=> ~last.obj.caught
          /\ last.op = "abort" <=> mode = "abort"
          /\ last.op = "err" => (last.obj.caught /\ mode = "run")

\* A foreign catch block has taken a Lithium exception by value: the copy
\* entry was called and the process is gone.
C37_Witness ==
  /\ backend = "seh" /\ last.op = "ffi_err" /\ last.origin = "lithium"
  /\ last.how = "value" /\ last.res = "abort" /\ mode = "abort"
  /\ last.obj.canary = THROW_INFO

\* C38: with the SEH backend throw and rethrow raise an object with
\* caught = false.  The catch callback of an intercept that takes an own
\* exception sets caught = true, then moves the cause out, then returns; the
\* destructor the C++ runtime runs after that finds the flag set and returns,
\* so intercept returns Err with the thrown cause and the process lives.
C38_SehCaughtFlag ==
  backend = "seh" =>
    /\ (last.op \in {"throw", "rethrow"} /\ mode = "unwind") =>
          (~exc.obj.caught /\ exc.obj.canary = THROW_INFO)
    /\ (last.op \in {"err", "reraise", "abort"} /\ last.origin = "lithium") =>
          /\ last.op = "err"
          /\ last.log = <<"caught = true", "take cause", "catch returns", "cleanup">>
          /\ last.obj.caught
          /\ last.val = last.tval /\ last.E = last.tE
          /\ mode = "run" /\ exc = NoExc
    /\ last.op = "err" => last.origin = "lithium"

\* An SEH exception thrown by rethrow has been caught by the outer intercept:
\* the flag is set on what the runtime destroyed, the cause is the new one.
C38_Witness ==
  /\ backend = "seh" /\ last.op = "err" /\ last.via = "rethrow"
  /\ last.obj.caught /\ last.obj.canary = THROW_INFO
  /\ last.val = 2 /\ last.pval = 1 /\ mode = "run"

\* C39: however the throws of the threads interleave, each field of the SEH
\* tables holds 0 or its final value, and a field a thread has stored in its
\* throw under way holds the final value; whenever a thread has raised an
\* exception, from throw or from rethrow, the tables it raised with held the
\* final value in all five fields, and a handle exists only when they do.
C39_SehTables ==
  /\ \A f \in DOMAIN tables : tables[f] \in {0, FilledTables[f]}
  /\ \A t \in Threads :
       /\ seh[t].pc \in {6, 7} => (seh[t].seen = FilledTables /\ tables = FilledTables)
       /\ seh[t].seen \in {NullTables, FilledTables}
       /\ \A i \in 1..5 : seh[t].pc \in i..5 => tables[TableOrder[i]] = FilledTables[TableOrder[i]]
  /\ (\E t \in Threads : seh[t].n > 1 \/ seh[t].pc > 5) => tables = FilledTables

\* One thread raises while another is in the middle of the stores of its own
\* first throw: the tables are final all the same.
C39_Witness ==
  /\ seh[1].pc = 6 /\ seh[1].n = 1 /\ seh[1].seen = FilledTables
  /\ seh[2].pc = 2 /\ seh[2].n = 1

\* C40 as stated: in a debug build expect ends the process with a diagnostic
\* that names both types exactly when the type ids differ, and returns
\* otherwise; in a release build it never ends the process.
C40_Original ==
  tc.pc = "checked" =>
    /\ (tc.debug /\ type_id(tc.T) # type_id(tc.U)) =>
          /\ mode = "abort" /\ tc.res = "abort"
          /\ \E i \in 1..Len(tc.stderr) : tc.stderr[i] = type_name(tc.T)
          /\ \E i \in 1..Len(tc.stderr) : tc.stderr[i] = type_name(tc.U)
    /\ (tc.debug /\ type_id(tc.T) = type_id(tc.U)) => (mode = "run" /\ tc.res = "ok")
    /\ ~tc.debug => (mode = "run" /\ tc.res = "ok")

\* C40, amended: in a debug build expect ends the process exactly when the
\* type ids differ, and returns with no effect otherwise, also for types that
\* differ in a lifetime only; the diagnostic that names both types reaches
\* stderr when the crate aborts through std, and nothing is written when it
\* aborts through core.  In a release build expect never ends the process, so
\* for equal type ids both builds return alike.
C40_TypeCheck ==
  /\ tc.pc = "checked" =>
        /\ tc.res = (IF tc.debug /\ type_id(tc.T) # type_id(tc.U) THEN "abort" ELSE "ok")
        /\ mode = (IF tc.res = "abort" THEN "abort" ELSE "run")
        /\ tc.res = "abort" =>
              IF select_abort(backend, tc.probe) = "std"
              THEN tc.stderr = <<"lithium::catch::<_, ", type_name(tc.U),
                                 "> caught an exception of type ", type_name(tc.T),
                                 ". This is undefined behavior. The process will now terminate.\n">>
              ELSE tc.stderr = <<>>
        /\ tc.res = "ok" => tc.stderr = <<>>
        /\ <<seh, call, build, threads, cs, exc, STACK, recs, panic_count, tables, last>>
             = <<NoSeh, NoCall, NoBuild, NoThreads(0), <<>>, NoExc,
                 [len |-> 0, heap |-> {}, cap |-> 0], <<>>, 0, NullTables, NoLast>>
  /\ (tc.pc # "none" /\ type_id(tc.T) = type_id(tc.U)) =>
        /\ TypeChecker_expect(TRUE, TypeChecker_new(TRUE, tc.T), tc.U)
             = TypeChecker_expect(FALSE, TypeChecker_new(FALSE, tc.T), tc.U)
        /\ TypeChecker_expect(TRUE, TypeChecker_new(TRUE, tc.T), tc.U).res = "ok"

\* A debug build that aborts through std: a checker made for i32 was asked
\* for () and the process ended with the message naming both.
C40_Witness ==
  /\ tc.pc = "checked" /\ tc.debug /\ tc.T = "i32" /\ tc.U = "unit"
  /\ backend = "panic" /\ mode = "abort"
  /\ tc.stderr[2] = "()" /\ tc.stderr[4] = "i32"

====
